---- MODULE Spec2Model ----
(***************************************************************************)
(* Protostar folding: the verifier's accumulator fold                      *)
(* (halo2_proofs/src/protostar/verifier.rs) replaying a transcript.        *)
(*                                                                         *)
(* Scalars of C::Scalar are the residues modulo P.  The commitment group C *)
(* has prime order equal to the size of the scalar field, so a group       *)
(* element is written as its discrete logarithm: group addition is Add,    *)
(* multiplication of a point by a scalar is Mul, the identity is 0 and     *)
(* to_affine() changes the representation, not the element.                *)
(***************************************************************************)
EXTENDS Integers, Sequences, FiniteSets, TLC

\* ------------------------------------------------------------------ bounds
P == 3
NumInstanceColumns == 1
NumInstanceRows == 2
NumAdviceColumns == 2
NumChallenges == 1
NumLookups == 1
NumThetas == 2
NumFoldingConstraints == 2
MaxDegree == 3
MaxFolds == 2
MaxTranscript == 2
MaxPhase == 1
DomainSize == 3
MaxExtraEvaluations == 1
MaxRowsEvaluated == 2
ParamsN == 4
MaxBlindingFactors == 2
MaxPolys == 2
MaxNumEvals == 3

\* ------------------------------------------------------- scalar arithmetic
F == 0..(P - 1)

Add(a, b) == (a + b) % P

Sub(a, b) == (a + P - b) % P

Mul(a, b) == (a * b) % P

ONE == 1 % P

ZERO == 0

\* arithmetic::eval_polynomial: Horner's rule over ascending coefficients
RECURSIVE eval_polynomial(_, _)
eval_polynomial(poly, point) ==
    IF poly = <<>> THEN ZERO
    ELSE Add(poly[1], Mul(point, eval_polynomial(Tail(poly), point)))

\* ------------------------------------------------------ transcript (hash)
\* The Fiat-Shamir state after absorbing one scalar read from the proof.
TranscriptAbsorb(h, v) == (h + v + 1) % P

\* squeeze_challenge_scalar: the challenge is a function of the state.
SqueezeChallenge(h) == h

\* the state after a squeeze
TranscriptAfterSqueeze(h) == (h + 1) % P

RECURSIVE AbsorbAll(_, _)
AbsorbAll(h, s) ==
    IF s = <<>> THEN h ELSE AbsorbAll(TranscriptAbsorb(h, s[1]), Tail(s))

\* ------------------------------------------------------------ accumulators
LookupAccumulator(m, r, thetas, g, h) ==
    [m |-> m, r |-> r, thetas |-> thetas, g |-> g, h |-> h]

\* The accumulators the runs start from: every field is a scalar or a group
\* element, here spread over the two seeds a and b.
AccFromSeeds(a, b) ==
    [ instance  |-> [c \in 1..NumInstanceColumns |->
                        [r \in 1..NumInstanceRows |-> (a + r * b + c) % P]],
      advice    |-> [i \in 1..NumAdviceColumns |-> (b + i * a) % P],
      challenges |-> [i \in 1..NumChallenges |-> (a + b + i) % P],
      lookup_accumulators |->
          [l \in 1..NumLookups |->
              LookupAccumulator((a + 2 * b + l) % P, (b + 1) % P,
                                [t \in 1..NumThetas |-> (a * t + b) % P],
                                (2 * a + b) % P, (a + l) % P)],
      beta      |-> a,
      beta_commitment |-> b,
      beta_error |-> (a * b) % P,
      ys        |-> [k \in 1..NumFoldingConstraints |-> (b + k * k * a) % P],
      error     |-> (a + b * b) % P ]

Accumulators == { AccFromSeeds(a, b) : a \in F, b \in F }

\* The arguments acc1 tried against a target: the target's own copy and one
\* accumulator per scalar.
Arguments(target) == {target} \cup { AccFromSeeds(c, (c + 1) % P) : c \in F }

\* ------------------------------------------------- VerifierAccumulator::fold
QuotientLen_sub1(d) == (d + 1) - 1

\* verifier.rs:184-186
QuotientLen(d) == (d + 1) - 2

IterMutSlot_rev(len, k) == len - k

\* verifier.rs:189: e_commitments.iter_mut() visits the slots front to back;
\* the slot (1-based) of iteration k (0-based)
IterMutSlot(len, k) == k + 1

FoldError_noComplement(a, coeffs, error0, error1) ==
    LET quotient_final_error_poly == eval_polynomial(coeffs, a) IN
    Add(Add(Mul(a, quotient_final_error_poly), Mul(Sub(ONE, a), error0)),
        Mul(a, error1))

\* verifier.rs:195-198
FoldError(a, coeffs, error0, error1) ==
    LET quotient_final_error_poly == eval_polynomial(coeffs, a) IN
    Add(Add(Mul(Mul(a, Sub(ONE, a)), quotient_final_error_poly),
            Mul(Sub(ONE, a), error0)),
        Mul(a, error1))

\* verifier.rs:204   *i0 = (*i1 - *i0) * i1 + *i0
FoldInstanceValue(i0, i1) == Add(Mul(Sub(i1, i0), i1), i0)

\* verifier.rs:202-206, zip stops at the shorter side
FoldInstances(instance0, instance1) ==
    [c \in 1..Len(instance0) |->
        IF c <= Len(instance1)
        THEN [r \in 1..Len(instance0[c]) |->
                 IF r <= Len(instance1[c])
                 THEN FoldInstanceValue(instance0[c][r], instance1[c][r])
                 ELSE instance0[c][r]]
        ELSE instance0[c]]

\* verifier.rs:215   ((*acc1_c - *self_c) * alpha + *self_c).to_affine()
FoldPoint(c0, c1, a) == Add(Mul(Sub(c1, c0), a), c0)

fold_commitments_pushes(self_commitments, acc1_commitments, a) ==
    self_commitments \o
    [i \in 1..(IF Len(self_commitments) <= Len(acc1_commitments)
               THEN Len(self_commitments) ELSE Len(acc1_commitments)) |->
        FoldPoint(self_commitments[i], acc1_commitments[i], a)]

\* verifier.rs:209-217
fold_commitments(self_commitments, acc1_commitments, a) ==
    [i \in 1..Len(self_commitments) |->
        IF i <= Len(acc1_commitments)
        THEN FoldPoint(self_commitments[i], acc1_commitments[i], a)
        ELSE self_commitments[i]]

\* verifier.rs:229, 232, 252, 261, 265   (x1 - x0) * alpha + x0
FoldScalar(x0, x1, a) == Add(Mul(Sub(x1, x0), a), x0)

FoldScalars(s0, s1, a) ==
    [i \in 1..Len(s0) |->
        IF i <= Len(s1) THEN FoldScalar(s0[i], s1[i], a) ELSE s0[i]]

FoldLookup_hFromG(l0, l1, a) ==
    [ m |-> FoldPoint(l0.m, l1.m, a),
      g |-> FoldPoint(l0.g, l1.g, a),
      h |-> FoldPoint(l0.h, l1.g, a),
      r |-> FoldScalar(l0.r, l1.r, a),
      thetas |-> FoldScalars(l0.thetas, l1.thetas, a) ]

\* verifier.rs:225-233
FoldLookup(l0, l1, a) ==
    [ m |-> FoldPoint(l0.m, l1.m, a),
      g |-> FoldPoint(l0.g, l1.g, a),
      h |-> FoldPoint(l0.h, l1.h, a),
      r |-> FoldScalar(l0.r, l1.r, a),
      thetas |-> FoldScalars(l0.thetas, l1.thetas, a) ]

\* verifier.rs:221-234
FoldLookups(ls0, ls1, a) ==
    [i \in 1..Len(ls0) |->
        IF i <= Len(ls1) THEN FoldLookup(ls0[i], ls1[i], a) ELSE ls0[i]]

\* verifier.rs:237-249
FoldBetaError(self, other, a) ==
    LET error0 == self.beta_error
        error1 == other.beta_error
        beta_com0 == self.beta_commitment
        beta_com1 == other.beta_commitment
        beta0 == self.beta
        beta1 == other.beta
        error_quotient == Add(Mul(beta_com0, Sub(beta1, beta0)),
                              Mul(beta_com1, Sub(beta0, beta1)))
    IN  Add(Add(Mul(error0, Sub(ONE, a)), Mul(error1, ONE)),
            Mul(error_quotient, Mul(Sub(ONE, a), a)))

FoldWith_betaFirst(self, other, a, coeffs) ==
    LET s1 == [self EXCEPT !.error = FoldError(a, coeffs, self.error, other.error)]
        s2 == [s1 EXCEPT !.instance = FoldInstances(s1.instance, other.instance)]
        s3 == [s2 EXCEPT !.advice = fold_commitments(s2.advice, other.advice, a)]
        s4 == [s3 EXCEPT !.lookup_accumulators =
                  FoldLookups(s3.lookup_accumulators, other.lookup_accumulators, a)]
        s5 == [s4 EXCEPT !.beta = FoldScalar(s4.beta, other.beta, a)]
        s6 == [s5 EXCEPT !.beta_error = FoldBetaError(s5, other, a)]
        s7 == [s6 EXCEPT !.beta_commitment =
                  FoldPoint(s6.beta_commitment, other.beta_commitment, a)]
        s8 == [s7 EXCEPT !.challenges = FoldScalars(s7.challenges, other.challenges, a)]
    IN  [s8 EXCEPT !.ys = FoldScalars(s8.ys, other.ys, a)]

\* verifier.rs:192-266: everything fold does once alpha is known, one
\* assignment to self after the other, each reading self as it then is
FoldWith(self, other, a, coeffs) ==
    LET s1 == [self EXCEPT !.error = FoldError(a, coeffs, self.error, other.error)]
        s2 == [s1 EXCEPT !.instance = FoldInstances(s1.instance, other.instance)]
        s3 == [s2 EXCEPT !.advice = fold_commitments(s2.advice, other.advice, a)]
        s4 == [s3 EXCEPT !.lookup_accumulators =
                  FoldLookups(s3.lookup_accumulators, other.lookup_accumulators, a)]
        s5 == [s4 EXCEPT !.beta_error = FoldBetaError(s4, other, a)]
        s6 == [s5 EXCEPT !.beta = FoldScalar(s5.beta, other.beta, a)]
        s7 == [s6 EXCEPT !.beta_commitment =
                  FoldPoint(s6.beta_commitment, other.beta_commitment, a)]
        s8 == [s7 EXCEPT !.challenges = FoldScalars(s7.challenges, other.challenges, a)]
    IN  [s8 EXCEPT !.ys = FoldScalars(s8.ys, other.ys, a)]

\* --------------------------------------------------- the prover's fold
\* x2 = (1 - alpha) * x0 + alpha * x1
Interpolate(x0, x1, a) == Add(Mul(Sub(ONE, a), x0), Mul(a, x1))

InterpolateAll(s0, s1, a) ==
    [i \in 1..Len(s0) |-> Interpolate(s0[i], s1[i], a)]

ProverBetaError(acc0, other, a) ==
    Add(Add(Mul(Sub(ONE, a), acc0.beta_error), Mul(a, other.beta_error)),
        Mul(Mul(a, Sub(ONE, a)),
            Add(Mul(acc0.beta_commitment, Sub(other.beta, acc0.beta)),
                Mul(other.beta_commitment, Sub(acc0.beta, other.beta)))))

\* Accumulator::fold, steps 5 to 7, on the committed view of the accumulator
ProverFoldWith(acc0, other, a, coeffs) ==
    [ error     |-> Add(Add(Mul(Mul(a, Sub(ONE, a)), eval_polynomial(coeffs, a)),
                            Mul(Sub(ONE, a), acc0.error)),
                        Mul(a, other.error)),
      instance  |-> [c \in 1..Len(acc0.instance) |->
                        InterpolateAll(acc0.instance[c], other.instance[c], a)],
      advice    |-> InterpolateAll(acc0.advice, other.advice, a),
      lookup_accumulators |->
          [l \in 1..Len(acc0.lookup_accumulators) |->
              LET l0 == acc0.lookup_accumulators[l]
                  l1 == other.lookup_accumulators[l]
              IN  [ m |-> Interpolate(l0.m, l1.m, a),
                    g |-> Interpolate(l0.g, l1.g, a),
                    h |-> Interpolate(l0.h, l1.h, a),
                    r |-> Interpolate(l0.r, l1.r, a),
                    thetas |-> InterpolateAll(l0.thetas, l1.thetas, a) ]],
      beta_error |-> ProverBetaError(acc0, other, a),
      beta      |-> Interpolate(acc0.beta, other.beta, a),
      beta_commitment |->
          Interpolate(acc0.beta_commitment, other.beta_commitment, a),
      challenges |-> InterpolateAll(acc0.challenges, other.challenges, a),
      ys        |-> InterpolateAll(acc0.ys, other.ys, a) ]

\* ------------------------------------------------------------------ state
VARIABLES
    degree,         \* pk.max_folding_constraints_degree()
    h_init,         \* transcript state when the fold steps begin
    transcript,     \* scalars the prover has written
    p_hash,         \* the prover's transcript state
    p_accs,         \* the prover's accumulator after each of its folds
    p_acc0,         \* the prover's accumulator before its first fold
    proof,          \* the bytes handed to the verifier
    tpos,           \* scalars of proof already read
    v_hash,         \* the verifier's transcript state
    acc,            \* self, the target of VerifierAccumulator::fold
    acc1,           \* the argument acc1
    pre,            \* self when the current call of fold began
    e_commitments,  \* the local e_commitments
    e_idx,          \* slots of e_commitments already filled
    alpha,          \* the squeezed challenge
    ops,            \* transcript operations of the current call, in order
    pc,             \* "prover", "idle", "reading", "done", "panicked"
    result,         \* how the current call of fold ended
    v_folds,        \* completed calls of fold
    pk,             \* the ProvingKey handed to new_from_prover
    instances,      \* the instances handed to new_from_prover
    gate,           \* the Gate a GateEvaluationCache is built for
    env,            \* what evaluate is handed: isize, pk, acc, new
    cache,          \* the GateEvaluationCache
    cache_pre,      \* the cache when the last call of evaluate began
    populated,      \* the cache as populate left it in the last call
    rows,           \* the rows evaluate was called with, in order
    plonk_gate,        \* the plonk::Gate handed to Gate::from, its polys to from_polys
    queries,        \* the Queries of Queries::from_polys
    queried_polys,  \* what Queries::queried_expression was called with and gave
    row_evals       \* the Row

\* the state of the row evaluator
gate_vars == << gate, env, cache, cache_pre, populated, rows, plonk_gate, queries,
               queried_polys, row_evals >>

\* the state of compilation and of the Row
compile_vars == << plonk_gate, queries, queried_polys, row_evals >>

\* what the steps of fold leave alone
other_vars == << pk, instances, gate, env, cache, cache_pre, populated, rows,
                plonk_gate, queries, queried_polys, row_evals >>

vars == << degree, h_init, transcript, p_hash, p_accs, p_acc0, proof, tpos,
           v_hash, acc, acc1, pre, e_commitments, e_idx, alpha, ops, pc,
           result, v_folds, pk, instances, gate, env, cache, cache_pre, populated,
           rows, plonk_gate, queries, queried_polys, row_evals >>

\* in the runs of the verifier no gate is evaluated
NoGateEvaluation ==
    /\ gate = <<>>
    /\ env = <<>>
    /\ cache = <<>>
    /\ cache_pre = <<>>
    /\ populated = <<>>
    /\ rows = <<>>
    /\ plonk_gate = <<>>
    /\ queries = <<>>
    /\ queried_polys = <<>>
    /\ row_evals = <<>>

\* in the runs of fold alone, no key beyond `degree` is looked at
NoKey == [cs |-> [num_instance_columns |-> 0]]

ReadOp(i, ok) == [op |-> "read_scalar", idx |-> i, ok |-> ok]

SqueezeOp == [op |-> "squeeze_challenge_scalar", idx |-> 0, ok |-> TRUE]

Init ==
    /\ degree \in 0..MaxDegree
    /\ h_init \in F
    /\ transcript = <<>>
    /\ p_hash = h_init
    /\ p_accs = <<>>
    /\ acc \in Accumulators
    /\ acc1 \in Arguments(acc)
    /\ p_acc0 = acc
    /\ proof = <<>>
    /\ tpos = 0
    /\ v_hash = h_init
    /\ pre = acc
    /\ e_commitments = <<>>
    /\ e_idx = 0
    /\ alpha = ZERO
    /\ ops = <<>>
    /\ pc = "prover"
    /\ result = "none"
    /\ v_folds = 0
    /\ pk = NoKey
    /\ instances = <<>>
    /\ NoGateEvaluation

\* Accumulator::fold: write the quotient coefficients, squeeze alpha, fold.
ProverFold ==
    /\ pc = "prover"
    /\ degree >= 1
    /\ Len(p_accs) < MaxFolds
    /\ Len(transcript) + QuotientLen(degree) <= MaxTranscript
    /\ \E q \in [1..QuotientLen(degree) -> F] :
          LET h1 == AbsorbAll(p_hash, q)
              a == SqueezeChallenge(h1)
              cur == IF p_accs = <<>> THEN p_acc0 ELSE p_accs[Len(p_accs)]
          IN  /\ transcript' = transcript \o q
              /\ p_hash' = TranscriptAfterSqueeze(h1)
              /\ p_accs' = Append(p_accs, ProverFoldWith(cur, acc1, a, q))
    /\ UNCHANGED << degree, h_init, p_acc0, proof, tpos, v_hash, acc, acc1,
                    pre, e_commitments, e_idx, alpha, ops, pc, result,
                    v_folds >>
    /\ UNCHANGED other_vars

\* transcript.finalize() and Blake2bRead::init(&proof[..]); the verifier may
\* be handed a proof whose last scalar is missing.
Finalize ==
    /\ pc = "prover"
    /\ \E cut \in {0, 1} :
          /\ cut <= Len(transcript)
          /\ proof' = SubSeq(transcript, 1, Len(transcript) - cut)
    /\ tpos' = 0
    /\ v_hash' = h_init
    /\ pc' = "idle"
    /\ UNCHANGED << degree, h_init, transcript, p_hash, p_accs, p_acc0, acc,
                    acc1, pre, e_commitments, e_idx, alpha, ops, result,
                    v_folds >>
    /\ UNCHANGED other_vars

\* verifier.rs:174-188: entry of fold, the lengths and vec![ZERO; len]
FoldStart ==
    /\ pc \in {"idle", "done"}
    /\ v_folds < MaxFolds
    /\ pre' = acc
    /\ ops' = <<>>
    /\ e_idx' = 0
    /\ alpha' = ZERO
    /\ IF degree + 1 < 2
       THEN \* usize underflow of final_error_poly_len - 2: the call aborts
            /\ pc' = "panicked"
            /\ result' = "panic: arithmetic overflow"
            /\ e_commitments' = <<>>
       ELSE /\ pc' = "reading"
            /\ result' = "none"
            /\ e_commitments' = [i \in 1..QuotientLen(degree) |-> ZERO]
    /\ UNCHANGED << degree, h_init, transcript, p_hash, p_accs, p_acc0, proof,
                    tpos, v_hash, acc, acc1, v_folds >>
    /\ UNCHANGED other_vars

FoldReadScalar_commitsEarly ==
    /\ pc = "reading"
    /\ e_idx < Len(e_commitments)
    /\ LET Slot == IterMutSlot(Len(e_commitments), e_idx) IN
       IF tpos < Len(proof)
       THEN /\ e_commitments' =
                   [e_commitments EXCEPT ![Slot] = proof[tpos + 1]]
            /\ v_hash' = TranscriptAbsorb(v_hash, proof[tpos + 1])
            /\ tpos' = tpos + 1
            /\ e_idx' = e_idx + 1
            /\ ops' = Append(ops, ReadOp(Slot - 1, TRUE))
            /\ acc' = [acc EXCEPT !.error = Add(@, proof[tpos + 1])]
            /\ UNCHANGED << pc, result >>
       ELSE /\ ops' = Append(ops, ReadOp(Slot - 1, FALSE))
            /\ pc' = "panicked"
            /\ result' = "panic: unwrap on Err"
            /\ UNCHANGED << e_commitments, v_hash, tpos, e_idx, acc >>
    /\ UNCHANGED << degree, h_init, transcript, p_hash, p_accs, p_acc0, proof,
                    acc1, pre, alpha, v_folds >>
    /\ UNCHANGED other_vars

\* verifier.rs:189-191: one iteration, transcript.read_scalar().unwrap()
FoldReadScalar ==
    /\ pc = "reading"
    /\ e_idx < Len(e_commitments)
    /\ LET Slot == IterMutSlot(Len(e_commitments), e_idx) IN
       IF tpos < Len(proof)
       THEN /\ e_commitments' =
                   [e_commitments EXCEPT ![Slot] = proof[tpos + 1]]
            /\ v_hash' = TranscriptAbsorb(v_hash, proof[tpos + 1])
            /\ tpos' = tpos + 1
            /\ e_idx' = e_idx + 1
            /\ ops' = Append(ops, ReadOp(Slot - 1, TRUE))
            /\ UNCHANGED << pc, result >>
       ELSE \* read_scalar returns Err and unwrap panics
            /\ ops' = Append(ops, ReadOp(Slot - 1, FALSE))
            /\ pc' = "panicked"
            /\ result' = "panic: unwrap on Err"
            /\ UNCHANGED << e_commitments, v_hash, tpos, e_idx >>
    /\ UNCHANGED << degree, h_init, transcript, p_hash, p_accs, p_acc0, proof,
                    acc, acc1, pre, alpha, v_folds >>
    /\ UNCHANGED other_vars

\* verifier.rs:192-267: squeeze alpha and fold every field, then return
FoldFinish ==
    /\ pc = "reading"
    /\ e_idx = Len(e_commitments)
    /\ LET a == SqueezeChallenge(v_hash)
       IN  /\ alpha' = a
           /\ acc' = FoldWith(acc, acc1, a, e_commitments)
    /\ v_hash' = TranscriptAfterSqueeze(v_hash)
    /\ ops' = Append(ops, SqueezeOp)
    /\ pc' = "done"
    /\ result' = "()"
    /\ v_folds' = v_folds + 1
    /\ UNCHANGED << degree, h_init, transcript, p_hash, p_accs, p_acc0, proof,
                    tpos, acc1, pre, e_commitments, e_idx >>
    /\ UNCHANGED other_vars

Next ==
    \/ ProverFold
    \/ Finalize
    \/ FoldStart
    \/ FoldReadScalar
    \/ FoldFinish

Spec == Init /\ [][Next]_vars

\* ------------------------------------------ fold of accumulators of two shapes
DropLast(s) == SubSeq(s, 1, Len(s) - 1)

\* The accumulators that differ from a in the length of exactly one of the
\* vectors of VerifierAccumulator (verifier.rs:38-48, 29-35).
Shortened(a) ==
    { [a EXCEPT !.instance = DropLast(@)],
      [a EXCEPT !.instance = [c \in DOMAIN @ |-> DropLast(@[c])]],
      [a EXCEPT !.advice = DropLast(@)],
      [a EXCEPT !.challenges = DropLast(@)],
      [a EXCEPT !.ys = DropLast(@)],
      [a EXCEPT !.lookup_accumulators = DropLast(@)],
      [a EXCEPT !.lookup_accumulators =
          [l \in DOMAIN @ |-> [@[l] EXCEPT !.thetas = DropLast(@)]]] }

\* fold takes any two accumulators (verifier.rs:174-179): here the target or
\* the argument is the shorter one.
InitShapes ==
    /\ degree \in 1..MaxDegree
    /\ h_init \in F
    /\ transcript = <<>>
    /\ p_hash = h_init
    /\ p_accs = <<>>
    /\ \E a0 \in Accumulators : \E a1 \in Arguments(a0) :
          \/ acc = a0 /\ acc1 \in Shortened(a1)
          \/ acc \in Shortened(a0) /\ acc1 = a1
    /\ p_acc0 = acc
    /\ proof \in [1..MaxTranscript -> F]
    /\ tpos = 0
    /\ v_hash = h_init
    /\ pre = acc
    /\ e_commitments = <<>>
    /\ e_idx = 0
    /\ alpha = ZERO
    /\ ops = <<>>
    /\ pc = "idle"
    /\ result = "none"
    /\ v_folds = 0
    /\ pk = NoKey
    /\ instances = <<>>
    /\ NoGateEvaluation

NextShapes ==
    \/ FoldStart
    \/ FoldReadScalar
    \/ FoldFinish

SpecShapes == InitShapes /\ [][NextShapes]_vars

\* ------------------------------------- VerifierAccumulator::new_from_prover
RECURSIVE Flatten(_)
Flatten(ss) == IF ss = <<>> THEN <<>> ELSE ss[1] \o Flatten(Tail(ss))

MaxOf(s) == CHOOSE x \in { s[i] : i \in DOMAIN s } :
                \A i \in DOMAIN s : s[i] <= x

\* ConstraintSystem::phases(): the phases 0..=max advice phase, in order
phases(cs) ==
    IF cs.advice_column_phase = <<>> THEN << 0 >>
    ELSE [i \in 1..(MaxOf(cs.advice_column_phase) + 1) |-> i - 1]

\* arithmetic::powers(base).take(n): 1, base, base^2, ...
RECURSIVE powers(_, _)
powers(base, n) ==
    IF n = 0 THEN <<>>
    ELSE << ONE >> \o [k \in 1..(n - 1) |-> Mul(base, powers(base, n - 1)[k])]

\* the positions of s, in order, that hold v
IndicesOf(s, v) == SelectSeq([i \in 1..Len(s) |-> i], LAMBDA i : s[i] = v)

TOp(kind, what, val, ok) == [op |-> kind, idx |-> what, val |-> val, ok |-> ok]

\* verifier.rs:66-70: common_scalar for each value of each instance column
InstanceSteps(insts) ==
    Flatten([c \in 1..Len(insts) |->
                [r \in 1..Len(insts[c]) |->
                    [op |-> "common_scalar", idx |-> << "instance", c, r >>,
                     val |-> insts[c][r]]]])

PhaseSteps_challengesFirst(cs, current_phase) ==
    [k \in 1..Len(IndicesOf(cs.challenge_phase, current_phase)) |->
        [op |-> "squeeze_challenge_scalar",
         idx |-> << "challenge", IndicesOf(cs.challenge_phase, current_phase)[k] >>,
         val |-> ZERO]]
    \o
    [k \in 1..Len(IndicesOf(cs.advice_column_phase, current_phase)) |->
        [op |-> "read_point",
         idx |-> << "advice", IndicesOf(cs.advice_column_phase, current_phase)[k] >>,
         val |-> ZERO]]

\* verifier.rs:96-112: one phase, its advice commitments then its challenges
PhaseSteps(cs, current_phase) ==
    [k \in 1..Len(IndicesOf(cs.advice_column_phase, current_phase)) |->
        [op |-> "read_point",
         idx |-> << "advice", IndicesOf(cs.advice_column_phase, current_phase)[k] >>,
         val |-> ZERO]]
    \o
    [k \in 1..Len(IndicesOf(cs.challenge_phase, current_phase)) |->
        [op |-> "squeeze_challenge_scalar",
         idx |-> << "challenge", IndicesOf(cs.challenge_phase, current_phase)[k] >>,
         val |-> ZERO]]

\* verifier.rs:131-149: per lookup, g then h
LookupSteps(cs) ==
    Flatten([l \in 1..Len(cs.lookups) |->
                << [op |-> "read_point", idx |-> << "g", l >>, val |-> ZERO],
                   [op |-> "read_point", idx |-> << "h", l >>, val |-> ZERO] >>])

\* verifier.rs:66-160: the transcript operations of a call, in program order
TranscriptSteps(insts, cs) ==
    InstanceSteps(insts)
    \o Flatten([p \in 1..Len(phases(cs)) |-> PhaseSteps(cs, phases(cs)[p])])
    \o [l \in 1..Len(cs.lookups) |->
           [op |-> "read_point", idx |-> << "m", l >>, val |-> ZERO]]
    \o << [op |-> "squeeze_challenge_scalar", idx |-> << "r" >>, val |-> ZERO],
          [op |-> "squeeze_challenge_scalar", idx |-> << "theta" >>, val |-> ZERO] >>
    \o LookupSteps(cs)
    \o << [op |-> "squeeze_challenge_scalar", idx |-> << "beta" >>, val |-> ZERO],
          [op |-> "read_point", idx |-> << "beta_commitment" >>, val |-> ZERO],
          [op |-> "squeeze_challenge_scalar", idx |-> << "y" >>, val |-> ZERO] >>

\* Runs the steps against the transcript; a read_point past the end of the
\* proof returns Err and `?` ends the call there.
RECURSIVE RunSteps(_, _, _)
RunSteps(steps, tape, st) ==
    IF steps = <<>> \/ ~ st.ok THEN st
    ELSE LET s == steps[1] IN
         IF s.op = "common_scalar"
         THEN RunSteps(Tail(steps), tape,
                  [st EXCEPT !.hash = TranscriptAbsorb(@, s.val),
                             !.ops = Append(@, TOp(s.op, s.idx, s.val, TRUE))])
         ELSE IF s.op = "squeeze_challenge_scalar"
         THEN RunSteps(Tail(steps), tape,
                  [st EXCEPT !.hash = TranscriptAfterSqueeze(@),
                             !.ops = Append(@, TOp(s.op, s.idx,
                                                   SqueezeChallenge(st.hash), TRUE))])
         ELSE IF st.tpos < Len(tape)
         THEN RunSteps(Tail(steps), tape,
                  [st EXCEPT !.hash = TranscriptAbsorb(@, tape[st.tpos + 1]),
                             !.tpos = @ + 1,
                             !.ops = Append(@, TOp(s.op, s.idx,
                                                   tape[st.tpos + 1], TRUE))])
         ELSE [st EXCEPT !.ok = FALSE,
                         !.ops = Append(@, TOp(s.op, s.idx, ZERO, FALSE))]

\* the value a finished run obtained for `what`
Obtained(log, what) == log[CHOOSE i \in DOMAIN log : log[i].idx = what].val

Built_thetasFromR(insts, key, log) ==
    [ instance  |-> insts,
      advice    |-> [i \in 1..key.cs.num_advice_columns |->
                        IF \E k \in DOMAIN log : log[k].idx = << "advice", i >>
                        THEN Obtained(log, << "advice", i >>) ELSE ZERO],
      challenges |-> [j \in 1..key.cs.num_challenges |->
                        IF \E k \in DOMAIN log : log[k].idx = << "challenge", j >>
                        THEN Obtained(log, << "challenge", j >>) ELSE ZERO],
      lookup_accumulators |->
          [l \in 1..Len(key.cs.lookups) |->
              LookupAccumulator(Obtained(log, << "m", l >>),
                                Obtained(log, << "r" >>),
                                powers(Obtained(log, << "r" >>),
                                       key.cs.lookups[l]),
                                Obtained(log, << "g", l >>),
                                Obtained(log, << "h", l >>))],
      beta      |-> Obtained(log, << "beta" >>),
      beta_commitment |-> Obtained(log, << "beta_commitment" >>),
      beta_error |-> ZERO,
      ys        |-> powers(Obtained(log, << "y" >>), key.num_folding_constraints),
      error     |-> ZERO ]

\* verifier.rs:72-75, 93-94, 131-172: the accumulator built from what was
\* obtained; vec![C::identity(); ..] and vec![ZERO; ..] for what no phase set
Built(insts, key, log) ==
    [ instance  |-> insts,
      advice    |-> [i \in 1..key.cs.num_advice_columns |->
                        IF \E k \in DOMAIN log : log[k].idx = << "advice", i >>
                        THEN Obtained(log, << "advice", i >>) ELSE ZERO],
      challenges |-> [j \in 1..key.cs.num_challenges |->
                        IF \E k \in DOMAIN log : log[k].idx = << "challenge", j >>
                        THEN Obtained(log, << "challenge", j >>) ELSE ZERO],
      lookup_accumulators |->
          [l \in 1..Len(key.cs.lookups) |->
              LookupAccumulator(Obtained(log, << "m", l >>),
                                Obtained(log, << "r" >>),
                                powers(Obtained(log, << "theta" >>),
                                       key.cs.lookups[l]),
                                Obtained(log, << "g", l >>),
                                Obtained(log, << "h", l >>))],
      beta      |-> Obtained(log, << "beta" >>),
      beta_commitment |-> Obtained(log, << "beta_commitment" >>),
      beta_error |-> ZERO,
      ys        |-> powers(Obtained(log, << "y" >>), key.num_folding_constraints),
      error     |-> ZERO ]

new_from_prover_checksLate(tape, start, insts, key) ==
    IF Len(insts) # key.cs.num_instance_columns
    THEN [ result |-> "Err(InvalidInstances)",
           st |-> RunSteps(InstanceSteps(insts), tape, start) ]
    ELSE LET st == RunSteps(TranscriptSteps(insts, key.cs), tape, start) IN
         IF ~ st.ok THEN [ result |-> "Err(TranscriptError)", st |-> st ]
         ELSE [ result |-> "Ok", st |-> st ]

\* verifier.rs:52-173
new_from_prover(tape, start, insts, key) ==
    IF Len(insts) # key.cs.num_instance_columns
    THEN [ result |-> "Err(InvalidInstances)", st |-> start ]
    ELSE LET st == RunSteps(TranscriptSteps(insts, key.cs), tape, start) IN
         IF ~ st.ok THEN [ result |-> "Err(TranscriptError)", st |-> st ]
         ELSE [ result |-> "Ok", st |-> st ]

\* the keys tried: every assignment of the advice columns and challenges to
\* phases 0..MaxPhase in which the used phases are 0..max and no challenge
\* belongs to a phase without advice column
Keys ==
    { [ cs |-> [ num_instance_columns |-> NumInstanceColumns,
                 num_advice_columns |-> NumAdviceColumns,
                 num_challenges |-> NumChallenges,
                 advice_column_phase |-> ap,
                 challenge_phase |-> cp,
                 lookups |-> [l \in 1..NumLookups |-> NumThetas - ((l - 1) % 2)] ],
        num_folding_constraints |-> NumFoldingConstraints ] :
      ap \in { f \in [1..NumAdviceColumns -> 0..MaxPhase] :
                  \A q \in 0..MaxPhase :
                      (\E i \in DOMAIN f : f[i] > q) =>
                      (\E i \in DOMAIN f : f[i] = q) },
      cp \in [1..NumChallenges -> 0..MaxPhase] }

UsableKeys ==
    { k \in Keys : \A j \in DOMAIN k.cs.challenge_phase :
                      \E i \in DOMAIN k.cs.advice_column_phase :
                          k.cs.advice_column_phase[i] = k.cs.challenge_phase[j] }

\* the points one call reads
PointsPerCall(key) == key.cs.num_advice_columns + 3 * Len(key.cs.lookups) + 1

NoAccumulator ==
    [ instance |-> <<>>, advice |-> <<>>, challenges |-> <<>>,
      lookup_accumulators |-> <<>>, beta |-> ZERO, beta_commitment |-> ZERO,
      beta_error |-> ZERO, ys |-> <<>>, error |-> ZERO ]

\* the instances a caller supplies: too few, the right number or too many
\* columns
SuppliedInstances ==
    { [c \in 1..n |-> [r \in 1..NumInstanceRows |-> (s + c * r) % P]] :
        n \in { NumInstanceColumns - 1, NumInstanceColumns,
                NumInstanceColumns + 1 },
        s \in 0..1 }

\* test_two_verifier_acc: a proof and a key; nothing ingested yet
InitNew ==
    /\ degree = 1
    /\ h_init \in F
    /\ transcript = <<>>
    /\ p_hash = h_init
    /\ p_accs = <<>>
    /\ acc = NoAccumulator
    /\ acc1 = NoAccumulator
    /\ p_acc0 = NoAccumulator
    /\ pk \in UsableKeys
    /\ instances = <<>>
    /\ NoGateEvaluation
    /\ \E s \in F : \E t \in 0..1 :
       \E len \in { 0, PointsPerCall(pk) - 1, PointsPerCall(pk),
                    2 * PointsPerCall(pk) - 1, 2 * PointsPerCall(pk) } :
          proof = [i \in 1..len |-> (s + i * t + (i * i) \div 2) % P]
    /\ tpos = 0
    /\ v_hash = h_init
    /\ pre = NoAccumulator
    /\ e_commitments = <<>>
    /\ e_idx = 0
    /\ alpha = ZERO
    /\ ops = <<>>
    /\ pc = "ingest0"
    /\ result = "none"
    /\ v_folds = 0

\* VerifierAccumulator::new_from_prover(&mut v_transcript, instances, &pk):
\* the first call builds v_acc0, the second v_acc1
NewFromProver ==
    /\ pc \in {"ingest0", "ingest1"}
    /\ instances' \in SuppliedInstances
    /\ \E out \in { new_from_prover(proof,
                      [tpos |-> tpos, hash |-> v_hash, ops |-> <<>>, ok |-> TRUE],
                      instances', pk) } :
           /\ result' = out.result
           /\ ops' = out.st.ops
           /\ tpos' = out.st.tpos
           /\ v_hash' = out.st.hash
           /\ IF out.result = "Ok"
              THEN /\ pc' = IF pc = "ingest0" THEN "ingest1" ELSE "ingested"
                   /\ acc' = IF pc = "ingest0"
                             THEN Built(instances', pk, out.st.ops) ELSE acc
                   /\ acc1' = IF pc = "ingest1"
                              THEN Built(instances', pk, out.st.ops) ELSE acc1
              ELSE /\ pc' = "rejected"
                   /\ UNCHANGED << acc, acc1 >>
    /\ UNCHANGED << degree, h_init, transcript, p_hash, p_accs, p_acc0, proof,
                    pre, e_commitments, e_idx, alpha, v_folds, pk >>
    /\ UNCHANGED gate_vars

NextNew == NewFromProver

SpecNew == InitNew /\ [][NextNew]_vars

\* ------------------------------------------------ error_check::gate::Expr
Constant(v) == [tag |-> "Constant", v |-> v]
SelectorLeaf(i) == [tag |-> "Selector", i |-> i]
Fixed(i) == [tag |-> "Fixed", i |-> i]
Advice(i) == [tag |-> "Advice", i |-> i]
Instance(i) == [tag |-> "Instance", i |-> i]
Challenge(i) == [tag |-> "Challenge", i |-> i]
Negated(a) == [tag |-> "Negated", a |-> a]
Sum(a, b) == [tag |-> "Sum", a |-> a, b |-> b]
Product(a, b) == [tag |-> "Product", a |-> a, b |-> b]
Scaled(a, v) == [tag |-> "Scaled", a |-> a, v |-> v]

\* Expr::evaluate with the closures of GateEvaluationCache::evaluate; the
\* leaves index the buffers vals.selectors, .fixed, .advice, .instance,
\* .challenges (from 1 here, from 0 in the source)
RECURSIVE EvaluateExpr(_, _)
EvaluateExpr(e, vals) ==
    CASE e.tag = "Constant"  -> e.v
      [] e.tag = "Selector"  -> vals.selectors[e.i]
      [] e.tag = "Fixed"     -> vals.fixed[e.i]
      [] e.tag = "Advice"    -> vals.advice[e.i]
      [] e.tag = "Instance"  -> vals.instance[e.i]
      [] e.tag = "Challenge" -> vals.challenges[e.i]
      [] e.tag = "Negated"   -> Sub(ZERO, EvaluateExpr(e.a, vals))
      [] e.tag = "Sum"       -> Add(EvaluateExpr(e.a, vals), EvaluateExpr(e.b, vals))
      [] e.tag = "Product"   -> Mul(EvaluateExpr(e.a, vals), EvaluateExpr(e.b, vals))
      [] e.tag = "Scaled"    -> Mul(EvaluateExpr(e.a, vals), e.v)

\* Expression::folding_degree
RECURSIVE folding_degree(_)
folding_degree(e) ==
    CASE e.tag \in {"Constant", "Selector", "Fixed"} -> 0
      [] e.tag \in {"Advice", "Instance", "Challenge"} -> 1
      [] e.tag \in {"Negated", "Scaled"} -> folding_degree(e.a)
      [] e.tag = "Sum" ->
            IF folding_degree(e.a) >= folding_degree(e.b)
            THEN folding_degree(e.a) ELSE folding_degree(e.b)
      [] e.tag = "Product" -> folding_degree(e.a) + folding_degree(e.b)

\* Option<T>
None == [some |-> FALSE, value |-> FALSE]
Some(v) == [some |-> TRUE, value |-> v]

Query(column, rotation) == [column_index |-> column, rotation |-> rotation]
ChallengeQuery(index, power) == [index |-> index, power |-> power]

\* ------------------------------------------------------- plonk::Expression
\* the source expressions: Constant, Negated, Sum, Product and Scaled as
\* above, the leaves carrying what they query
ExpressionSelector(s) == [tag |-> "Selector", i |-> s]
ExpressionFixed(column, rotation) ==
    [tag |-> "Fixed", q |-> Query(column, rotation)]
ExpressionAdvice(column, rotation) ==
    [tag |-> "Advice", q |-> Query(column, rotation)]
ExpressionInstance(column, rotation) ==
    [tag |-> "Instance", q |-> Query(column, rotation)]
ExpressionChallenge(index, power) ==
    [tag |-> "Challenge", q |-> ChallengeQuery(index, power)]

\* Gate::extract_simple_selector: the layer Product(Selector(s), rest) peeled
\* where every polynomial has it for one common s
extract_simple_selector(polys) ==
    IF /\ polys # <<>>
       /\ \A j \in DOMAIN polys :
             /\ polys[j].tag = "Product"
             /\ polys[j].a.tag = "Selector"
             /\ polys[j].a.i = polys[1].a.i
    THEN [ polys |-> [j \in DOMAIN polys |-> polys[j].b],
           simple_selector |-> Some(polys[1].a.i) ]
    ELSE [ polys |-> polys, simple_selector |-> None ]

\* Expression::merge_challenge_products: a product of powers of one challenge
\* becomes one leaf whose power is the sum
RECURSIVE merge_challenge_products(_)
merge_challenge_products(e) ==
    CASE e.tag = "Negated" -> Negated(merge_challenge_products(e.a))
      [] e.tag = "Scaled"  -> Scaled(merge_challenge_products(e.a), e.v)
      [] e.tag = "Sum"     -> Sum(merge_challenge_products(e.a),
                                  merge_challenge_products(e.b))
      [] e.tag = "Product" ->
            LET a == merge_challenge_products(e.a)
                b == merge_challenge_products(e.b)
            IN  IF /\ a.tag = "Challenge"
                   /\ b.tag = "Challenge"
                   /\ a.q.index = b.q.index
                THEN ExpressionChallenge(a.q.index, a.q.power + b.q.power)
                ELSE Product(a, b)
      [] OTHER -> e

\* Expression::traverse with a closure that keeps the leaves of one kind:
\* what the closure is handed for them
RECURSIVE traverse(_, _)
traverse(e, kind) ==
    CASE e.tag = "Constant" -> {}
      [] e.tag = "Selector" -> IF kind = "Selector" THEN {e.i} ELSE {}
      [] e.tag \in {"Fixed", "Advice", "Instance", "Challenge"} ->
            IF e.tag = kind THEN {e.q} ELSE {}
      [] e.tag \in {"Negated", "Scaled"} -> traverse(e.a, kind)
      [] OTHER -> traverse(e.a, kind) \cup traverse(e.b, kind)

\* the leaves of one kind in a list of polynomials
Collected(polys, kind) == UNION { traverse(polys[j], kind) : j \in DOMAIN polys }

\* Ord of Selector, of FixedQuery, InstanceQuery and AdviceQuery, of Challenge
SelectorLess(a, b) == a < b

QueryLess(a, b) ==
    \/ a.column_index < b.column_index
    \/ a.column_index = b.column_index /\ a.rotation < b.rotation

ChallengeLess(a, b) ==
    \/ a.index < b.index
    \/ a.index = b.index /\ a.power < b.power

\* Ord of the tuples (usize, Rotation) and (usize, usize)
TupleLess(a, b) == a[1] < b[1] \/ (a[1] = b[1] /\ a[2] < b[2])

\* Ord of the elements of a set of the given kind
Less(order, a, b) ==
    CASE order = "Selector"  -> SelectorLess(a, b)
      [] order = "Query"     -> QueryLess(a, b)
      [] order = "Challenge" -> ChallengeLess(a, b)
      [] order = "Tuple"     -> TupleLess(a, b)

\* BTreeSet::into_iter().collect(): the elements of the set, increasing
into_sorted(S, order) ==
    CHOOSE s \in [1..Cardinality(S) -> S] :
        \A i, j \in 1..Cardinality(S) : i < j => Less(order, s[i], s[j])

get_idx_last(container, elem) == Len(container)

\* get_idx: container.iter().position(|x| x == elem), places counted from 1
\* here; 0 stands for the None that unwrap() panics on
get_idx(container, elem) ==
    IF \E i \in DOMAIN container : container[i] = elem
    THEN CHOOSE i \in DOMAIN container :
            /\ container[i] = elem
            /\ \A k \in 1..(i - 1) : container[k] # elem
    ELSE 0

\* Expression::to_expr
RECURSIVE to_expr(_, _, _, _, _, _)
to_expr(e, selectors, fixed, challenges, instance, advice) ==
    CASE e.tag = "Constant"  -> Constant(e.v)
      [] e.tag = "Selector"  -> SelectorLeaf(get_idx(selectors, e.i))
      [] e.tag = "Fixed"     -> Fixed(get_idx(fixed, e.q))
      [] e.tag = "Advice"    -> Advice(get_idx(advice, e.q))
      [] e.tag = "Instance"  -> Instance(get_idx(instance, e.q))
      [] e.tag = "Challenge" -> Challenge(get_idx(challenges, e.q))
      [] e.tag = "Negated"   ->
            Negated(to_expr(e.a, selectors, fixed, challenges, instance, advice))
      [] e.tag = "Sum"       ->
            Sum(to_expr(e.a, selectors, fixed, challenges, instance, advice),
                to_expr(e.b, selectors, fixed, challenges, instance, advice))
      [] e.tag = "Product"   ->
            Product(to_expr(e.a, selectors, fixed, challenges, instance, advice),
                    to_expr(e.b, selectors, fixed, challenges, instance, advice))
      [] e.tag = "Scaled"    ->
            Scaled(to_expr(e.a, selectors, fixed, challenges, instance, advice),
                   e.v)

\* some get_idx of the rewriting found nothing to unwrap
RECURSIVE UnwrapFailed(_)
UnwrapFailed(e) ==
    CASE e.tag = "Constant" -> FALSE
      [] e.tag \in {"Selector", "Fixed", "Advice", "Instance", "Challenge"} ->
            e.i = 0
      [] e.tag \in {"Negated", "Scaled"} -> UnwrapFailed(e.a)
      [] OTHER -> UnwrapFailed(e.a) \/ UnwrapFailed(e.b)

Gate_from_adviceDescending(cs_gate) ==
    LET extracted == extract_simple_selector(cs_gate.polys)
        polys == [j \in DOMAIN extracted.polys |->
                     merge_challenge_products(extracted.polys[j])]
        selectors == into_sorted(Collected(polys, "Selector"), "Selector")
        fixed == into_sorted(Collected(polys, "Fixed"), "Query")
        challenges == into_sorted(Collected(polys, "Challenge"), "Challenge")
        instance == into_sorted(Collected(polys, "Instance"), "Query")
        advice == CHOOSE s \in [1..Cardinality(Collected(polys, "Advice")) ->
                                  Collected(polys, "Advice")] :
                      \A i, j \in DOMAIN s : i < j => QueryLess(s[j], s[i])
    IN  [ polys |-> [j \in DOMAIN polys |->
              to_expr(polys[j], selectors, fixed, challenges, instance, advice)],
          simple_selector |-> extracted.simple_selector,
          degrees |-> [j \in DOMAIN polys |-> folding_degree(polys[j])],
          queried_selectors |-> selectors,
          queried_fixed |-> fixed,
          queried_challenges |-> challenges,
          queried_instance |-> instance,
          queried_advice |-> advice ]

\* Gate::from
Gate_from(cs_gate) ==
    LET extracted == extract_simple_selector(cs_gate.polys)
        polys == [j \in DOMAIN extracted.polys |->
                     merge_challenge_products(extracted.polys[j])]
        selectors == into_sorted(Collected(polys, "Selector"), "Selector")
        fixed == into_sorted(Collected(polys, "Fixed"), "Query")
        challenges == into_sorted(Collected(polys, "Challenge"), "Challenge")
        instance == into_sorted(Collected(polys, "Instance"), "Query")
        advice == into_sorted(Collected(polys, "Advice"), "Query")
    IN  [ polys |-> [j \in DOMAIN polys |->
              to_expr(polys[j], selectors, fixed, challenges, instance, advice)],
          simple_selector |-> extracted.simple_selector,
          degrees |-> [j \in DOMAIN polys |-> folding_degree(polys[j])],
          queried_selectors |-> selectors,
          queried_fixed |-> fixed,
          queried_challenges |-> challenges,
          queried_instance |-> instance,
          queried_advice |-> advice ]

\* ------------------------------------------------- error_check::row::Queries
\* what from_polys interns: v.index(), (v.column_index(), v.rotation()),
\* (v.index(), v.power() - 1)
QueryTuple(q) == << q.column_index, q.rotation >>

ChallengeTuple(q) == << q.index, q.power - 1 >>

\* Queries::from_polys
from_polys(polys) ==
    [ selectors |-> into_sorted(Collected(polys, "Selector"), "Selector"),
      fixed |-> into_sorted({ QueryTuple(q) : q \in Collected(polys, "Fixed") },
                            "Tuple"),
      instance |-> into_sorted({ QueryTuple(q) :
                                    q \in Collected(polys, "Instance") },
                               "Tuple"),
      advice |-> into_sorted({ QueryTuple(q) : q \in Collected(polys, "Advice") },
                             "Tuple"),
      challenges |-> into_sorted({ ChallengeTuple(q) :
                                      q \in Collected(polys, "Challenge") },
                                 "Tuple") ]

\* Queries::queried_expression
RECURSIVE queried_expression(_, _)
queried_expression(qs, poly) ==
    CASE poly.tag = "Constant"  -> Constant(poly.v)
      [] poly.tag = "Selector"  -> SelectorLeaf(get_idx(qs.selectors, poly.i))
      [] poly.tag = "Fixed"     -> Fixed(get_idx(qs.fixed, QueryTuple(poly.q)))
      [] poly.tag = "Advice"    -> Advice(get_idx(qs.advice, QueryTuple(poly.q)))
      [] poly.tag = "Instance"  ->
            Instance(get_idx(qs.instance, QueryTuple(poly.q)))
      [] poly.tag = "Challenge" ->
            Challenge(get_idx(qs.challenges, ChallengeTuple(poly.q)))
      [] poly.tag = "Negated"   -> Negated(queried_expression(qs, poly.a))
      [] poly.tag = "Sum"       -> Sum(queried_expression(qs, poly.a),
                                       queried_expression(qs, poly.b))
      [] poly.tag = "Product"   -> Product(queried_expression(qs, poly.a),
                                           queried_expression(qs, poly.b))
      [] poly.tag = "Scaled"    -> Scaled(queried_expression(qs, poly.a), poly.v)

\* the gates evaluated: constraints of degrees 2 and 1 behind a simple
\* selector; constraints of degree 2 without simple selector; constraints of
\* degree 1 behind a simple selector; one constraint of degree 0
EvaluatedCsGates ==
    { [polys |-> <<
         Product(ExpressionSelector(1),
                 Sum(Product(ExpressionAdvice(1, 0), ExpressionAdvice(2, 1)),
                     Negated(Product(ExpressionFixed(1, -1),
                                     ExpressionFixed(1, 1))))),
         Product(ExpressionSelector(1),
                 Product(ExpressionSelector(2),
                         Sum(Sum(ExpressionInstance(1, -1),
                                 Scaled(Product(ExpressionChallenge(1, 1),
                                                ExpressionChallenge(1, 1)),
                                        2 % P)),
                             Product(ExpressionFixed(1, 0),
                                     ExpressionChallenge(1, 1))))) >>],
      [polys |-> <<
         Sum(Product(ExpressionAdvice(1, -1),
                     Product(ExpressionChallenge(1, 1),
                             ExpressionChallenge(1, 1))),
             ExpressionFixed(2, -1)),
         Product(ExpressionInstance(1, 1),
                 Sum(ExpressionAdvice(2, 0), ExpressionFixed(1, 0))) >>],
      [polys |-> <<
         Product(ExpressionSelector(1),
                 Sum(ExpressionAdvice(2, 1),
                     Product(ExpressionFixed(1, -1), ExpressionFixed(1, 1)))),
         Product(ExpressionSelector(1),
                 Sum(Product(ExpressionSelector(2), ExpressionInstance(1, 0)),
                     Negated(ExpressionChallenge(1, 1)))) >>],
      [polys |-> <<
         Product(ExpressionSelector(1),
                 Sum(ExpressionFixed(1, 1),
                     Negated(ExpressionFixed(1, -1)))) >>] }

Gates == { Gate_from(g) : g \in EvaluatedCsGates }

\* -------------------------------------- error_check::gate::GateEvaluationCache
\* ErrorEvaluations::new(n): n samples, all zero
ErrorEvaluations_new(n) == [x \in 1..n |-> ZERO]

challenges_diff(challenges_acc, challenges_new) ==
    [q \in 1..(IF Len(challenges_acc) <= Len(challenges_new)
               THEN Len(challenges_acc) ELSE Len(challenges_new)) |->
        Sub(challenges_new[q], challenges_acc[q])]

\* gate.rs:288-306: the first row is challenges_acc, every further row the
\* previous one plus the step
RECURSIVE challenge_powers_evals(_, _, _)
challenge_powers_evals(challenges_acc, step, num_evals) ==
    IF num_evals <= 1 THEN << challenges_acc >>
    ELSE LET prev == challenge_powers_evals(challenges_acc, step, num_evals - 1)
             prev_evals == prev[num_evals - 1]
         IN  Append(prev,
                 [q \in 1..(IF Len(prev_evals) <= Len(step)
                            THEN Len(prev_evals) ELSE Len(step)) |->
                     Add(prev_evals[q], step[q])])

evaluatuated_challenges_addsNew(challenges_acc, challenges_new, num_evals) ==
    challenge_powers_evals(challenges_acc, challenges_new, num_evals)

\* gate.rs:273-307
evaluatuated_challenges(challenges_acc, challenges_new, num_evals) ==
    challenge_powers_evals(challenges_acc,
                           challenges_diff(challenges_acc, challenges_new),
                           num_evals)

MaxDegreeOf(degrees) ==
    CHOOSE d \in { degrees[j] : j \in DOMAIN degrees } :
        \A j \in DOMAIN degrees : degrees[j] <= d

\* the challenges the gate queries, acc_challenges[c.index()][c.power() - 1]
queried(g, challenges) ==
    [q \in DOMAIN g.queried_challenges |->
        challenges[g.queried_challenges[q].index][g.queried_challenges[q].power]]

\* GateEvaluationCache::new
GateEvaluationCache_new(g, acc_challenges, new_challenges, num_extra_evaluations) ==
    [ gate |-> g,
      num_evals |-> [j \in DOMAIN g.degrees |->
                        g.degrees[j] + 1 + num_extra_evaluations],
      max_num_evals |-> MaxDegreeOf(g.degrees) + 1 + num_extra_evaluations,
      challenge_evals |->
          evaluatuated_challenges(queried(g, acc_challenges),
                                  queried(g, new_challenges),
                                  MaxDegreeOf(g.degrees) + 1 + num_extra_evaluations),
      simple_selector |-> None,
      selectors |-> [i \in DOMAIN g.queried_selectors |-> ZERO],
      fixed |-> [i \in DOMAIN g.queried_fixed |-> ZERO],
      instance_acc |-> [i \in DOMAIN g.queried_instance |-> ZERO],
      instance_diff |-> [i \in DOMAIN g.queried_instance |-> ZERO],
      advice_acc |-> [i \in DOMAIN g.queried_advice |-> ZERO],
      advice_diff |-> [i \in DOMAIN g.queried_advice |-> ZERO],
      gate_eval |-> [j \in DOMAIN g.degrees |->
                        ErrorEvaluations_new(g.degrees[j] + 1
                                             + num_extra_evaluations)] ]

get_rotation_idx_abs(idx, rot, isize) ==
    (IF idx + rot < 0 THEN 0 - (idx + rot) ELSE idx + rot) % isize

\* gate.rs:135-137: rem_euclid, the non-negative remainder
get_rotation_idx(idx, rot, isize) == (idx + rot) % isize

FillBuffers_keepsAdviceAcc(c, row, e) ==
    [c EXCEPT
       !.selectors = [i \in DOMAIN c.gate.queried_selectors |->
           IF e.pk.selectors[c.gate.queried_selectors[i]][row + 1]
           THEN ONE ELSE ZERO],
       !.fixed = [i \in DOMAIN c.gate.queried_fixed |->
           e.pk.fixed[c.gate.queried_fixed[i].column_index]
                     [get_rotation_idx(row, c.gate.queried_fixed[i].rotation,
                                       e.isize) + 1]],
       !.instance_acc = [i \in DOMAIN c.gate.queried_instance |->
           e.acc.instance_transcript.instance_polys
               [c.gate.queried_instance[i].column_index]
               [get_rotation_idx(row, c.gate.queried_instance[i].rotation,
                                 e.isize) + 1]],
       !.instance_diff = [i \in DOMAIN c.gate.queried_instance |->
           Sub(e.new.instance_transcript.instance_polys
                   [c.gate.queried_instance[i].column_index]
                   [get_rotation_idx(row, c.gate.queried_instance[i].rotation,
                                     e.isize) + 1],
               e.acc.instance_transcript.instance_polys
                   [c.gate.queried_instance[i].column_index]
                   [get_rotation_idx(row, c.gate.queried_instance[i].rotation,
                                     e.isize) + 1])],
       !.advice_diff = [i \in DOMAIN c.gate.queried_advice |->
           Sub(e.new.advice_transcript.advice_polys
                   [c.gate.queried_advice[i].column_index]
                   [get_rotation_idx(row, c.gate.queried_advice[i].rotation,
                                     e.isize) + 1],
               e.acc.advice_transcript.advice_polys
                   [c.gate.queried_advice[i].column_index]
                   [get_rotation_idx(row, c.gate.queried_advice[i].rotation,
                                     e.isize) + 1])]]

\* gate.rs:150-182: the buffers filled for the row
FillBuffers(c, row, e) ==
    [c EXCEPT
       !.selectors = [i \in DOMAIN c.gate.queried_selectors |->
           IF e.pk.selectors[c.gate.queried_selectors[i]][row + 1]
           THEN ONE ELSE ZERO],
       !.fixed = [i \in DOMAIN c.gate.queried_fixed |->
           e.pk.fixed[c.gate.queried_fixed[i].column_index]
                     [get_rotation_idx(row, c.gate.queried_fixed[i].rotation,
                                       e.isize) + 1]],
       !.instance_acc = [i \in DOMAIN c.gate.queried_instance |->
           e.acc.instance_transcript.instance_polys
               [c.gate.queried_instance[i].column_index]
               [get_rotation_idx(row, c.gate.queried_instance[i].rotation,
                                 e.isize) + 1]],
       !.instance_diff = [i \in DOMAIN c.gate.queried_instance |->
           Sub(e.new.instance_transcript.instance_polys
                   [c.gate.queried_instance[i].column_index]
                   [get_rotation_idx(row, c.gate.queried_instance[i].rotation,
                                     e.isize) + 1],
               e.acc.instance_transcript.instance_polys
                   [c.gate.queried_instance[i].column_index]
                   [get_rotation_idx(row, c.gate.queried_instance[i].rotation,
                                     e.isize) + 1])],
       !.advice_acc = [i \in DOMAIN c.gate.queried_advice |->
           e.acc.advice_transcript.advice_polys
               [c.gate.queried_advice[i].column_index]
               [get_rotation_idx(row, c.gate.queried_advice[i].rotation,
                                 e.isize) + 1]],
       !.advice_diff = [i \in DOMAIN c.gate.queried_advice |->
           Sub(e.new.advice_transcript.advice_polys
                   [c.gate.queried_advice[i].column_index]
                   [get_rotation_idx(row, c.gate.queried_advice[i].rotation,
                                     e.isize) + 1],
               e.acc.advice_transcript.advice_polys
                   [c.gate.queried_advice[i].column_index]
                   [get_rotation_idx(row, c.gate.queried_advice[i].rotation,
                                     e.isize) + 1])]]

\* gate.rs:140-143: the value of the simple selector at the row, cached
CacheSimpleSelector(c, row, e) ==
    IF c.gate.simple_selector.some
    THEN [c EXCEPT !.simple_selector =
             Some(e.pk.selectors[c.gate.simple_selector.value][row + 1])]
    ELSE c

populate_fillsFirst(c, row, e) ==
    FillBuffers(CacheSimpleSelector(c, row, e), row, e)

\* GateEvaluationCache::populate
populate(c, row, e) ==
    IF /\ c.gate.simple_selector.some
       /\ ~ e.pk.selectors[c.gate.simple_selector.value][row + 1]
    THEN CacheSimpleSelector(c, row, e)
    ELSE FillBuffers(CacheSimpleSelector(c, row, e), row, e)

AddDiffs_keepsAcc(c) == c

\* gate.rs:219-226: instance_tmp += instance_diff, advice_tmp += advice_diff
AddDiffs(c) ==
    [c EXCEPT
       !.instance_acc = [i \in DOMAIN c.instance_acc |->
                            Add(c.instance_acc[i], c.instance_diff[i])],
       !.advice_acc = [i \in DOMAIN c.advice_acc |->
                            Add(c.advice_acc[i], c.advice_diff[i])]]

EvalOp(j, X, stored) == [op |-> "evaluate", idx |-> << j, X >>, ok |-> stored]

\* gate.rs:228-250: the constraints from the j-th on at the sample index
\* eval_idx; a store past the end of gate_eval[j].evals is a panic
RECURSIVE EvaluatePolys(_, _, _, _)
EvaluatePolys(c, eval_idx, j, log) ==
    IF j > Len(c.gate.polys) \/ j > Len(c.num_evals)
    THEN [cache |-> c, log |-> log, ok |-> TRUE]
    ELSE IF eval_idx > c.num_evals[j]
    THEN EvaluatePolys(c, eval_idx, j + 1, log)
    ELSE LET ev == EvaluateExpr(c.gate.polys[j],
                       [ selectors |-> c.selectors,
                         fixed |-> c.fixed,
                         advice |-> c.advice_acc,
                         instance |-> c.instance_acc,
                         challenges |-> c.challenge_evals[eval_idx + 1] ])
         IN  IF eval_idx + 1 \in DOMAIN c.gate_eval[j]
             THEN EvaluatePolys([c EXCEPT !.gate_eval[j][eval_idx + 1] = ev],
                                eval_idx, j + 1,
                                Append(log, EvalOp(j, eval_idx, TRUE)))
             ELSE [cache |-> c,
                   log |-> Append(log, EvalOp(j, eval_idx, FALSE)),
                   ok |-> FALSE]

\* gate.rs:217-251: the sample indices from eval_idx on
RECURSIVE EvaluateFrom(_, _, _)
EvaluateFrom(c, eval_idx, log) ==
    IF eval_idx >= c.max_num_evals
    THEN [cache |-> c, log |-> log, ok |-> TRUE]
    ELSE LET r == EvaluatePolys(IF eval_idx > 0 THEN AddDiffs(c) ELSE c,
                                eval_idx, 1, log)
         IN  IF r.ok THEN EvaluateFrom(r.cache, eval_idx + 1, r.log) ELSE r

\* GateEvaluationCache::evaluate
evaluate(c, row, e) ==
    LET p == populate(c, row, e) IN
    IF p.simple_selector.some /\ ~ p.simple_selector.value
    THEN [cache |-> p, populated |-> p, log |-> <<>>, ret |-> "None"]
    ELSE LET r == EvaluateFrom(p, 0, <<>>) IN
         [cache |-> r.cache, populated |-> p, log |-> r.log,
          ret |-> IF r.ok THEN "Some" ELSE "panic: index out of bounds"]

\* column values of a table of N rows
Table(seed, columns) ==
    [c \in 1..columns |->
        [r \in 1..DomainSize |-> (seed + c * r + seed * r * r + c) % P]]

ProverAccumulator(seed) ==
    [ instance_transcript |-> [instance_polys |-> Table(seed, 1)],
      advice_transcript |-> [advice_polys |-> Table(seed + 1, 2)],
      challenges |-> << << (seed + 1) % P, (2 * seed + 1) % P >> >> ]

\* a gate, a key with its selector and fixed columns, two accumulators
InitGate ==
    /\ gate \in Gates
    /\ \E k \in 0..MaxExtraEvaluations :
       \E s \in [1..DomainSize -> BOOLEAN] :
       \E a \in F : \E b \in F :
          env = [ num_extra_evaluations |-> k,
                  isize |-> DomainSize,
                  pk |-> [ selectors |-> << s, [r \in 1..DomainSize |-> r % 2 = 1] >>,
                           fixed |-> Table(2, 2) ],
                  acc |-> ProverAccumulator(a),
                  new |-> ProverAccumulator(b) ]
    /\ cache = <<>>
    /\ cache_pre = <<>>
    /\ populated = <<>>
    /\ rows = <<>>
    /\ plonk_gate = <<>>
    /\ queries = <<>>
    /\ queried_polys = <<>>
    /\ row_evals = <<>>
    /\ degree = 1
    /\ h_init = ZERO
    /\ transcript = <<>>
    /\ p_hash = ZERO
    /\ p_accs = <<>>
    /\ acc = NoAccumulator
    /\ acc1 = NoAccumulator
    /\ p_acc0 = NoAccumulator
    /\ pre = NoAccumulator
    /\ pk = NoKey
    /\ instances = <<>>
    /\ proof = <<>>
    /\ tpos = 0
    /\ v_hash = ZERO
    /\ e_commitments = <<>>
    /\ e_idx = 0
    /\ alpha = ZERO
    /\ ops = <<>>
    /\ pc = "gate"
    /\ result = "none"
    /\ v_folds = 0

verifier_vars == << degree, h_init, transcript, p_hash, p_accs, p_acc0, proof,
                    tpos, v_hash, acc, acc1, pre, e_commitments, e_idx, alpha,
                    v_folds, pk, instances >>

\* GateEvaluationCache::new(&gate, &acc.challenges, &new.challenges, k)
GateNew ==
    /\ pc = "gate"
    /\ cache' = GateEvaluationCache_new(gate, env.acc.challenges,
                                        env.new.challenges,
                                        env.num_extra_evaluations)
    /\ cache_pre' = cache'
    /\ populated' = cache'
    /\ pc' = "cache"
    /\ UNCHANGED << gate, env, rows, ops, result >>
    /\ UNCHANGED compile_vars
    /\ UNCHANGED verifier_vars

\* cache.evaluate(row, isize, &pk, &acc, &new) for some row of the domain
GateEvaluate ==
    /\ pc = "cache"
    /\ Len(rows) < MaxRowsEvaluated
    /\ \E row \in 0..(env.isize - 1) :
       \E out \in { evaluate(cache, row, env) } :
          /\ rows' = Append(rows, row)
          /\ cache_pre' = cache
          /\ cache' = out.cache
          /\ populated' = out.populated
          /\ ops' = out.log
          /\ result' = out.ret
          /\ pc' = IF out.ret \in {"None", "Some"} THEN "cache" ELSE "panicked"
    /\ UNCHANGED << gate, env >>
    /\ UNCHANGED compile_vars
    /\ UNCHANGED verifier_vars

NextGate == GateNew \/ GateEvaluate

SpecGate == InitGate /\ [][NextGate]_vars

\* ------------------------------------------------- witness::create_proof
UsableRows_noMinusOne(n, blinding_factors) == n - blinding_factors

\* witness.rs:89: poly.len() - (meta.blinding_factors() + 1)
UsableRows(n, blinding_factors) == n - (blinding_factors + 1)

\* witness.rs:83-101: the instance columns from the c-th on, in order; the
\* first column with too many values ends the call, the values of the columns
\* before it are already part of the transcript
RECURSIVE InstancePolys(_, _, _, _)
InstancePolys(insts, c, key, st) ==
    IF c > Len(insts) THEN [ result |-> "Ok", st |-> st ]
    ELSE IF Len(insts[c]) > UsableRows(key.params_n, key.cs.blinding_factors)
    THEN [ result |-> "Err(InstanceTooLarge)", st |-> st ]
    ELSE InstancePolys(insts, c + 1, key,
             IF key.QUERY_INSTANCE THEN st
             ELSE RunSteps([r \in 1..Len(insts[c]) |->
                               [op |-> "common_scalar",
                                idx |-> << "instance", c, r >>,
                                val |-> insts[c][r]]],
                           <<>>, st))

\* VerifyingKey::hash_into: the key's representation becomes part of the
\* transcript
hash_into(key, st) ==
    RunSteps(<< [op |-> "common_scalar", idx |-> << "vk" >>,
                val |-> key.transcript_repr] >>,
             <<>>, st)

\* witness.rs:64-101: the checks of create_proof on its instances; what
\* follows them (witness synthesis, commitments) is summed up as "proceeds"
create_proof(insts, key, start) ==
    IF Len(insts) # key.cs.num_instance_columns
    THEN [ result |-> "Err(InvalidInstances)", st |-> start ]
    ELSE LET hashed == hash_into(key, start)
             polys == InstancePolys(insts, 1, key, hashed)
         IN  IF polys.result = "Ok"
             THEN [ result |-> "proceeds", st |-> polys.st ]
             ELSE polys

\* the keys and parameters create_proof is called with; keygen has made sure
\* that the domain holds the blinding rows
VerifyingKeys ==
    { [ cs |-> [ num_instance_columns |-> NumInstanceColumns,
                 blinding_factors |-> b ],
        params_n |-> ParamsN,
        QUERY_INSTANCE |-> q,
        transcript_repr |-> 1 % P ] :
      b \in 0..MaxBlindingFactors, q \in BOOLEAN }

\* instances of too few, the right number or too many columns, every column
\* one value short of the usable rows, filling them, or one value too long
ProofInstances(key) ==
    UNION { [1..n -> { [r \in 1..len |-> (s + r) % P] :
                         len \in { u \in { UsableRows(key.params_n, key.cs.blinding_factors) + d :
                                           d \in {-1, 0, 1} } : u >= 0 },
                         s \in 0..1 }] :
            n \in { NumInstanceColumns - 1, NumInstanceColumns,
                    NumInstanceColumns + 1 } }

InitProof ==
    /\ pk \in VerifyingKeys
    /\ h_init \in F
    /\ v_hash = h_init
    /\ instances = <<>>
    /\ ops = <<>>
    /\ pc = "prove"
    /\ result = "none"
    /\ NoGateEvaluation
    /\ degree = 1
    /\ transcript = <<>>
    /\ p_hash = ZERO
    /\ p_accs = <<>>
    /\ acc = NoAccumulator
    /\ acc1 = NoAccumulator
    /\ p_acc0 = NoAccumulator
    /\ pre = NoAccumulator
    /\ proof = <<>>
    /\ tpos = 0
    /\ e_commitments = <<>>
    /\ e_idx = 0
    /\ alpha = ZERO
    /\ v_folds = 0

\* create_proof(params, vk, circuit, instances, rng, transcript)
CreateProof ==
    /\ pc = "prove"
    /\ instances' \in ProofInstances(pk)
    /\ \E out \in { create_proof(instances', pk,
                        [tpos |-> 0, hash |-> v_hash, ops |-> <<>>, ok |-> TRUE]) } :
          /\ result' = out.result
          /\ ops' = out.st.ops
          /\ v_hash' = out.st.hash
    /\ pc' = "proved"
    /\ UNCHANGED << degree, h_init, transcript, p_hash, p_accs, p_acc0, proof,
                    tpos, acc, acc1, pre, e_commitments, e_idx, alpha, v_folds,
                    pk >>
    /\ UNCHANGED gate_vars

NextProof == CreateProof

SpecProof == InitProof /\ [][NextProof]_vars

\* ------------------------------------- Gate::from and Queries::from_polys run
\* the polynomials gates are made of: behind selector 1, behind selector 2,
\* behind none; products of one challenge and of two; a selector queried
\* again below the one that multiplies the polynomial
Expressions ==
    { Product(ExpressionSelector(1),
              Sum(Product(ExpressionAdvice(1, 0), ExpressionAdvice(2, 1)),
                  Negated(ExpressionFixed(1, 1)))),
      Product(ExpressionSelector(1),
              Product(ExpressionSelector(2),
                      Sum(ExpressionInstance(1, -1),
                          Scaled(Product(ExpressionChallenge(1, 1),
                                         ExpressionChallenge(1, 1)),
                                 2 % P)))),
      Sum(Product(ExpressionAdvice(1, -1),
                  Product(ExpressionChallenge(1, 1),
                          Product(ExpressionChallenge(1, 1),
                                  ExpressionChallenge(1, 1)))),
          ExpressionFixed(2, -1)),
      Product(ExpressionInstance(1, 1),
              Sum(ExpressionAdvice(2, 0), ExpressionFixed(1, 0))),
      Product(ExpressionSelector(1),
              Product(ExpressionSelector(1), ExpressionAdvice(1, 0))),
      Product(ExpressionSelector(2),
              Sum(ExpressionFixed(1, 1), Negated(ExpressionFixed(1, -1)))),
      Sum(Product(ExpressionChallenge(1, 1), ExpressionChallenge(2, 1)),
          Constant(ONE)),
      Product(ExpressionSelector(1),
              Sum(Product(ExpressionChallenge(1, 2), ExpressionChallenge(1, 1)),
                  Negated(ExpressionAdvice(1, 0)))) }

\* gates of one to MaxPolys polynomials
CsGates ==
    { [polys |-> p] : p \in UNION { [1..n -> Expressions] : n \in 1..MaxPolys } }

InitCompile ==
    /\ plonk_gate \in CsGates
    /\ queries = <<>>
    /\ queried_polys = <<>>
    /\ row_evals = <<>>
    /\ gate = <<>>
    /\ env = <<>>
    /\ cache = <<>>
    /\ cache_pre = <<>>
    /\ populated = <<>>
    /\ rows = <<>>
    /\ degree = 1
    /\ h_init = ZERO
    /\ transcript = <<>>
    /\ p_hash = ZERO
    /\ p_accs = <<>>
    /\ acc = NoAccumulator
    /\ acc1 = NoAccumulator
    /\ p_acc0 = NoAccumulator
    /\ pre = NoAccumulator
    /\ pk = NoKey
    /\ instances = <<>>
    /\ proof = <<>>
    /\ tpos = 0
    /\ v_hash = ZERO
    /\ e_commitments = <<>>
    /\ e_idx = 0
    /\ alpha = ZERO
    /\ ops = <<>>
    /\ pc = "compile"
    /\ result = "none"
    /\ v_folds = 0

\* Gate::from(&cs_gate)
GateFrom ==
    /\ pc = "compile"
    /\ DOMAIN gate = {}
    /\ \E out \in { Gate_from(plonk_gate) } :
          /\ gate' = out
          /\ pc' = IF \E j \in DOMAIN out.polys : UnwrapFailed(out.polys[j])
                   THEN "panicked" ELSE "compile"
    /\ UNCHANGED << plonk_gate, queries, queried_polys, row_evals, env, cache,
                    cache_pre, populated, rows, ops, result >>
    /\ UNCHANGED verifier_vars

\* Queries::from_polys(&cs_gate.polys)
FromPolys ==
    /\ pc = "compile"
    /\ DOMAIN queries = {}
    /\ queries' = from_polys(plonk_gate.polys)
    /\ UNCHANGED << plonk_gate, gate, queried_polys, row_evals, env, cache,
                    cache_pre, populated, rows, ops, result, pc >>
    /\ UNCHANGED verifier_vars

\* queries.queried_expression(&poly), for a polynomial of the gate or another
QueriedExpression ==
    /\ pc = "compile"
    /\ DOMAIN queries # {}
    /\ DOMAIN queried_polys = {}
    /\ \E poly \in Expressions :
       \E out \in { queried_expression(queries, poly) } :
          /\ queried_polys' = [poly |-> poly, expr |-> out]
          /\ pc' = IF UnwrapFailed(out) THEN "panicked" ELSE "compile"
    /\ UNCHANGED << plonk_gate, gate, queries, row_evals, env, cache, cache_pre,
                    populated, rows, ops, result >>
    /\ UNCHANGED verifier_vars

NextCompile == GateFrom \/ FromPolys \/ QueriedExpression

SpecCompile == InitCompile /\ [][NextCompile]_vars

\* ----------------------------------------------------- error_check::row::Row
\* stands for 2^64 - 1, the largest usize: beyond every column length
UsizeMax == 2147483647

\* `as usize` of an i32: a negative value wraps to the top of the range
as_usize(v) == IF v < 0 THEN UsizeMax + (1 + v) ELSE v

\* Row::new
Row_new(qs, num_evals) ==
    [ selectors |-> [i \in DOMAIN qs.selectors |-> ZERO],
      fixed |-> [i \in DOMAIN qs.fixed |-> ZERO],
      instance_evals |-> [X \in 1..num_evals |->
                             [i \in DOMAIN qs.instance |-> ZERO]],
      advice_evals |-> [X \in 1..num_evals |->
                           [i \in DOMAIN qs.advice |-> ZERO]],
      instance_diff |-> [i \in DOMAIN qs.instance |-> ZERO],
      advice_diff |-> [i \in DOMAIN qs.advice |-> ZERO],
      queries |-> qs,
      num_evals |-> num_evals ]

ReadAt(column, index, inside) ==
    [op |-> "read", idx |-> << column, index >>, ok |-> inside]

\* row.rs:268: (row_idx as i32 + rotation.0) as usize
rotated(row_idx, rotation) == as_usize(row_idx + rotation)

\* row.rs:266-271 from the i-th pair of the zip on: the value read is stored,
\* a read past the end of the column is a panic
RECURSIVE FillFrom(_, _, _, _, _, _)
FillFrom(i, row, row_idx, qs, columns, log) ==
    IF i > Len(row) \/ i > Len(qs)
    THEN [row |-> row, ok |-> TRUE, log |-> log]
    ELSE LET column_idx == qs[i][1]
             at == rotated(row_idx, qs[i][2])
             inside == /\ column_idx \in DOMAIN columns
                       /\ at < Len(columns[column_idx])
         IN  IF inside
             THEN FillFrom(i + 1, [row EXCEPT ![i] = columns[column_idx][at + 1]],
                           row_idx, qs, columns,
                           Append(log, ReadAt(column_idx, at, TRUE)))
             ELSE [row |-> row, ok |-> FALSE,
                   log |-> Append(log, ReadAt(column_idx, at, FALSE))]

\* Row::fill_row_with_rotations
fill_row_with_rotations(row, row_idx, qs, columns) ==
    FillFrom(1, row, row_idx, qs, columns, <<>>)

\* the steps below take and give [row, ok, log]: the Row, whether no step
\* has panicked, the reads so far; after a panic nothing more is done

\* Row::populate_selectors
populate_selectors(st, row_idx, columns) ==
    IF ~ st.ok THEN st
    ELSE [st EXCEPT !.row.selectors =
             [i \in DOMAIN st.row.selectors |->
                 IF columns[st.row.queries.selectors[i]][row_idx + 1]
                 THEN ONE ELSE ZERO]]

\* Row::populate_fixed
populate_fixed(st, row_idx, columns) ==
    IF ~ st.ok THEN st
    ELSE LET f == fill_row_with_rotations(st.row.fixed, row_idx,
                                          st.row.queries.fixed, columns)
         IN  [row |-> [st.row EXCEPT !.fixed = f.row],
              ok |-> f.ok,
              log |-> st.log \o f.log]

\* Row::populate_instance; instance_evals[eval_idx] must exist
populate_instance(st, row_idx, eval_idx, columns) ==
    IF ~ st.ok THEN st
    ELSE IF eval_idx + 1 \notin DOMAIN st.row.instance_evals
    THEN [st EXCEPT !.ok = FALSE]
    ELSE LET f == fill_row_with_rotations(st.row.instance_evals[eval_idx + 1],
                                          row_idx, st.row.queries.instance,
                                          columns)
         IN  [row |-> [st.row EXCEPT !.instance_evals[eval_idx + 1] = f.row],
              ok |-> f.ok,
              log |-> st.log \o f.log]

\* Row::populate_advice; advice_evals[eval_idx] must exist
populate_advice(st, row_idx, eval_idx, columns) ==
    IF ~ st.ok THEN st
    ELSE IF eval_idx + 1 \notin DOMAIN st.row.advice_evals
    THEN [st EXCEPT !.ok = FALSE]
    ELSE LET f == fill_row_with_rotations(st.row.advice_evals[eval_idx + 1],
                                          row_idx, st.row.queries.advice,
                                          columns)
         IN  [row |-> [st.row EXCEPT !.advice_evals[eval_idx + 1] = f.row],
              ok |-> f.ok,
              log |-> st.log \o f.log]

\* Row::populate_all
populate_all(r, row_idx, selectors, fixed, instance, advice) ==
    populate_advice(
        populate_instance(
            populate_fixed(
                populate_selectors([row |-> r, ok |-> TRUE, log |-> <<>>],
                                   row_idx, selectors),
                row_idx, fixed),
            row_idx, 0, instance),
        row_idx, 0, advice)

EvalsDiff_ofFirst(evals) == evals[2]

\* row.rs:166-168, 181-183: diff[i] = evals[1][i] - evals[0][i]
EvalsDiff(evals) == [i \in DOMAIN evals[2] |-> Sub(evals[2][i], evals[1][i])]

\* row.rs:169-174, 184-189: evals[eval_idx][i] = evals[eval_idx - 1][i] + diff[i]
\* for eval_idx from the given one up to num_evals - 1
RECURSIVE ExtendEvals(_, _, _, _)
ExtendEvals(evals, diff, eval_idx, num_evals) ==
    IF eval_idx >= num_evals THEN evals
    ELSE ExtendEvals([evals EXCEPT ![eval_idx + 1] =
                         [i \in DOMAIN diff |-> Add(evals[eval_idx][i], diff[i])]],
                     diff, eval_idx + 1, num_evals)

\* row.rs:164-174
InterpolateAdvice(st) ==
    IF ~ st.ok THEN st
    ELSE LET diff == EvalsDiff(st.row.advice_evals)
         IN  [st EXCEPT !.row.advice_diff = diff,
                        !.row.advice_evals =
                            ExtendEvals(st.row.advice_evals, diff, 2,
                                        st.row.num_evals)]

\* row.rs:179-189
InterpolateInstance(st) ==
    IF ~ st.ok THEN st
    ELSE LET diff == EvalsDiff(st.row.instance_evals)
         IN  [st EXCEPT !.row.instance_diff = diff,
                        !.row.instance_evals =
                            ExtendEvals(st.row.instance_evals, diff, 2,
                                        st.row.num_evals)]

\* Row::populate_all_evaluated
populate_all_evaluated(r, row_idx, selectors, fixed, instance_0, instance_1, advice_0, advice_1) ==
    LET s1 == populate_fixed(
                  populate_selectors([row |-> r, ok |-> TRUE, log |-> <<>>],
                                     row_idx, selectors),
                  row_idx, fixed)
        s2 == InterpolateAdvice(
                  populate_advice(populate_advice(s1, row_idx, 0, advice_0),
                                  row_idx, 1, advice_1))
    IN  InterpolateInstance(
            populate_instance(populate_instance(s2, row_idx, 0, instance_0),
                              row_idx, 1, instance_1))

\* a gate's polynomials, the number of samples, the columns of a key and of
\* two accumulators
InitRow ==
    /\ plonk_gate \in EvaluatedCsGates
    /\ \E n \in 1..MaxNumEvals :
       \E t \in BOOLEAN :
       \E a \in 0..1 : \E b \in F :
          env = [ num_evals |-> n,
                  num_extra_evaluations |-> 0,
                  isize |-> DomainSize,
                  pk |-> [ selectors |-> << [r \in 1..DomainSize |-> t \/ r % 2 = 0],
                                            [r \in 1..DomainSize |-> r % 2 = 1] >>,
                           fixed |-> Table(2, 2) ],
                  acc |-> ProverAccumulator(a),
                  new |-> ProverAccumulator(b) ]
    /\ queries = <<>>
    /\ queried_polys = <<>>
    /\ row_evals = <<>>
    /\ gate = <<>>
    /\ cache = <<>>
    /\ cache_pre = <<>>
    /\ populated = <<>>
    /\ rows = <<>>
    /\ degree = 1
    /\ h_init = ZERO
    /\ transcript = <<>>
    /\ p_hash = ZERO
    /\ p_accs = <<>>
    /\ acc = NoAccumulator
    /\ acc1 = NoAccumulator
    /\ p_acc0 = NoAccumulator
    /\ pre = NoAccumulator
    /\ pk = NoKey
    /\ instances = <<>>
    /\ proof = <<>>
    /\ tpos = 0
    /\ v_hash = ZERO
    /\ e_commitments = <<>>
    /\ e_idx = 0
    /\ alpha = ZERO
    /\ ops = <<>>
    /\ pc = "row"
    /\ result = "none"
    /\ v_folds = 0

\* Row::new(Queries::from_polys(&polys), num_evals)
RowNew ==
    /\ pc = "row"
    /\ \E qs \in { from_polys(plonk_gate.polys) } :
          /\ queries' = qs
          /\ row_evals' = Row_new(qs, env.num_evals)
    /\ pc' = "populate"
    /\ UNCHANGED << plonk_gate, queried_polys, gate, env, cache, cache_pre,
                    populated, rows, ops, result >>
    /\ UNCHANGED verifier_vars

\* row.populate_all(row_idx, ..) with the columns of the key and of acc
PopulateAll ==
    /\ pc = "populate"
    /\ Len(rows) < MaxRowsEvaluated
    /\ \E row_idx \in 0..(DomainSize - 1) :
       \E out \in { populate_all(row_evals, row_idx, env.pk.selectors,
                                 env.pk.fixed,
                                 env.acc.instance_transcript.instance_polys,
                                 env.acc.advice_transcript.advice_polys) } :
          /\ rows' = Append(rows, row_idx)
          /\ row_evals' = out.row
          /\ ops' = out.log
          /\ result' = IF out.ok THEN "populate_all"
                       ELSE "panic: index out of bounds"
          /\ pc' = IF out.ok THEN "populate" ELSE "panicked"
    /\ UNCHANGED << plonk_gate, queries, queried_polys, gate, env, cache,
                    cache_pre, populated >>
    /\ UNCHANGED verifier_vars

\* row.populate_all_evaluated(row_idx, ..) with the columns of the key, of acc
\* and of new
PopulateAllEvaluated ==
    /\ pc = "populate"
    /\ Len(rows) < MaxRowsEvaluated
    /\ \E row_idx \in 0..(DomainSize - 1) :
       \E out \in { populate_all_evaluated(
                        row_evals, row_idx, env.pk.selectors, env.pk.fixed,
                        env.acc.instance_transcript.instance_polys,
                        env.new.instance_transcript.instance_polys,
                        env.acc.advice_transcript.advice_polys,
                        env.new.advice_transcript.advice_polys) } :
          /\ rows' = Append(rows, row_idx)
          /\ row_evals' = out.row
          /\ ops' = out.log
          /\ result' = IF out.ok THEN "populate_all_evaluated"
                       ELSE "panic: index out of bounds"
          /\ pc' = IF out.ok THEN "populate" ELSE "panicked"
    /\ UNCHANGED << plonk_gate, queries, queried_polys, gate, env, cache,
                    cache_pre, populated >>
    /\ UNCHANGED verifier_vars

NextRow == RowNew \/ PopulateAll \/ PopulateAllEvaluated

SpecRow == InitRow /\ [][NextRow]_vars

\* ------------------------------------------------------------------ claims
\* what the claims call x0 + alpha * (x1 - x0), over the integers then reduced
Lerp(x0, x1, a) == (x0 + a * (x1 + P - x0)) % P

RECURSIVE Power(_, _)
Power(x, n) == IF n = 0 THEN 1 ELSE x * Power(x, n - 1)

RECURSIVE SumOfTerms(_, _, _)
SumOfTerms(coeffs, x, n) ==
    IF n = 0 THEN 0
    ELSE coeffs[n] * Power(x, n - 1) + SumOfTerms(coeffs, x, n - 1)

\* the scalars the current call has read from the proof, in reading order
CoefficientsRead == SubSeq(proof, tpos - Len(e_commitments) + 1, tpos)

NumReads == Cardinality({ i \in DOMAIN ops : ops[i].op = "read_scalar" })

NumSqueezes ==
    Cardinality({ i \in DOMAIN ops : ops[i].op = "squeeze_challenge_scalar" })

ReadFailed == ops # <<>> /\ ~ ops[Len(ops)].ok

\* C1: once the verifier has replayed a fold of the prover, its accumulator
\* equals the prover's accumulator after the same number of folds, in every
\* field.
C1_ProverVerifierAgreement ==
    (pc = "done" /\ v_folds <= Len(p_accs)) => acc = p_accs[v_folds]

\* C2: a fold whose alpha is 0 leaves the target as it was, and a fold whose
\* alpha is 1 makes the target equal to acc1, in every field.
C2_IdentityAtExtremes ==
    pc = "done" =>
        /\ (alpha = ZERO => acc = pre)
        /\ (alpha = ONE => acc = acc1)

\* C3: folding an accumulator with a copy of itself (the quotient sent for
\* such a fold is zero) yields the same accumulator in every field.
C3_SameAccumulatorFold ==
    ( /\ pc = "done"
      /\ acc1 = pre
      /\ \A i \in DOMAIN e_commitments : e_commitments[i] = ZERO )
    => acc = pre

\* C4: after fold, error = alpha*(1-alpha)*e'(alpha) + (1-alpha)*error0 +
\* alpha*error1, e' having the scalars read from the transcript as its
\* coefficients in ascending order.
C4_ErrorFormula ==
    pc = "done" =>
        LET n == Len(e_commitments)
            e_quot == SumOfTerms(CoefficientsRead, alpha, n)
        IN  acc.error = ( alpha * (P + 1 - alpha) * e_quot
                          + (P + 1 - alpha) * pre.error
                          + alpha * acc1.error ) % P

C4_Witness ==
    /\ pc = "done"
    /\ Len(e_commitments) = 2
    /\ e_commitments[1] # e_commitments[2]
    /\ e_commitments[2] # ZERO
    /\ alpha \notin {ZERO, ONE}
    /\ pre.error # acc1.error

\* C5: after fold, every instance value is x0 + alpha * (x1 - x0).
C5_InstanceInterpolated ==
    pc = "done" =>
        \A c \in DOMAIN acc.instance : \A r \in DOMAIN acc.instance[c] :
            acc.instance[c][r] =
                Lerp(pre.instance[c][r], acc1.instance[c][r], alpha)

\* C6: after fold, each advice commitment, challenge, ys entry, each lookup
\* accumulator's m, g, h, r and thetas, beta and beta_commitment is
\* x0 + alpha * (x1 - x0).
C6_FieldsInterpolated ==
    pc = "done" =>
        /\ \A i \in DOMAIN acc.advice :
              acc.advice[i] = Lerp(pre.advice[i], acc1.advice[i], alpha)
        /\ \A i \in DOMAIN acc.challenges :
              acc.challenges[i] =
                  Lerp(pre.challenges[i], acc1.challenges[i], alpha)
        /\ \A i \in DOMAIN acc.ys :
              acc.ys[i] = Lerp(pre.ys[i], acc1.ys[i], alpha)
        /\ \A l \in DOMAIN acc.lookup_accumulators :
              LET l2 == acc.lookup_accumulators[l]
                  l0 == pre.lookup_accumulators[l]
                  l1 == acc1.lookup_accumulators[l]
              IN  /\ l2.m = Lerp(l0.m, l1.m, alpha)
                  /\ l2.g = Lerp(l0.g, l1.g, alpha)
                  /\ l2.h = Lerp(l0.h, l1.h, alpha)
                  /\ l2.r = Lerp(l0.r, l1.r, alpha)
                  /\ DOMAIN l2.thetas = DOMAIN l0.thetas
                  /\ \A t \in DOMAIN l2.thetas :
                        l2.thetas[t] = Lerp(l0.thetas[t], l1.thetas[t], alpha)
        /\ acc.beta = Lerp(pre.beta, acc1.beta, alpha)
        /\ acc.beta_commitment =
               Lerp(pre.beta_commitment, acc1.beta_commitment, alpha)
        /\ DOMAIN acc.advice = DOMAIN pre.advice
        /\ DOMAIN acc.challenges = DOMAIN pre.challenges
        /\ DOMAIN acc.ys = DOMAIN pre.ys
        /\ DOMAIN acc.lookup_accumulators = DOMAIN pre.lookup_accumulators

C6_Witness ==
    /\ pc = "done"
    /\ alpha \notin {ZERO, ONE}
    /\ pre.advice # acc1.advice
    /\ pre.beta # acc1.beta
    /\ pre.beta_commitment # acc1.beta_commitment
    /\ \E l \in DOMAIN pre.lookup_accumulators :
          /\ pre.lookup_accumulators[l].h # acc1.lookup_accumulators[l].h
          /\ pre.lookup_accumulators[l].thetas
                 # acc1.lookup_accumulators[l].thetas

\* C7: after fold, beta_error = (1-alpha)*beta_error0 + alpha*beta_error1 +
\* alpha*(1-alpha)*(C0*(beta1-beta0) + C1*(beta0-beta1)).
C7_BetaErrorFormula ==
    pc = "done" =>
        acc.beta_error =
            ( (P + 1 - alpha) * pre.beta_error
              + alpha * acc1.beta_error
              + alpha * (P + 1 - alpha)
                  * ( pre.beta_commitment * (acc1.beta + P - pre.beta)
                      + acc1.beta_commitment * (pre.beta + P - acc1.beta) )
            ) % P

\* C8 as stated: with max_folding_constraints_degree() = D - 1, a call of
\* fold reads exactly D - 1 scalars.
C8_ReadsDMinusOne ==
    pc = "done" => LET D == degree + 1 IN NumReads = D - 1

\* C8 as amended: with max_folding_constraints_degree() = D - 1, a call of
\* fold that returns has read exactly D - 2 scalars, the next D - 2 of the
\* proof.
C8_ReadsDMinusTwo ==
    pc = "done" =>
        LET D == degree + 1
        IN  /\ NumReads = D - 2
            /\ Len(e_commitments) = D - 2
            /\ tpos >= D - 2
            /\ e_commitments = CoefficientsRead

C8_Witness == pc = "done" /\ degree = MaxDegree /\ NumReads >= 2

\* C9: within a call of fold the transcript operations are the reads of the
\* quotient coefficients in ascending index and then, only after the last
\* of them, exactly one squeeze; nothing else.
C9_TranscriptOrder ==
    pc \in {"reading", "done", "panicked"} =>
        /\ \A i \in DOMAIN ops :
              \/ ops[i].op = "read_scalar" /\ ops[i].idx = i - 1
                                           /\ i <= Len(e_commitments)
              \/ ops[i].op = "squeeze_challenge_scalar"
                    /\ i = Len(e_commitments) + 1
                    /\ pc = "done"
        /\ NumSqueezes <= 1
        /\ pc = "done" =>
              /\ Len(ops) = Len(e_commitments) + 1
              /\ ops[Len(ops)].op = "squeeze_challenge_scalar"
              /\ \A i \in 1..Len(e_commitments) : ops[i].ok

C9_Witness ==
    /\ pc = "done"
    /\ Len(ops) = 3
    /\ ops[1].idx = 0
    /\ ops[2].idx = 1
    /\ ops[3].op = "squeeze_challenge_scalar"

\* C10: when a transcript read fails during a fold, the fold hands a
\* TranscriptError to its caller as a result value.
C10_TranscriptErrorReturned ==
    ReadFailed => result = "Err(TranscriptError)"

\* C11: fold changes no field of the target before every quotient coefficient
\* has been read, so when a read fails the target is what it was before the
\* call.
C11_NoPartialState ==
    /\ pc = "reading" => acc = pre
    /\ ReadFailed => acc = pre

C11_Witness == ReadFailed /\ e_idx >= 1 /\ pc = "panicked" /\ v_folds = 0

\* the lengths of every vector of an accumulator
Shape(a) ==
    [ instance |-> [c \in DOMAIN a.instance |-> Len(a.instance[c])],
      advice |-> Len(a.advice),
      challenges |-> Len(a.challenges),
      ys |-> Len(a.ys),
      lookups |-> [l \in DOMAIN a.lookup_accumulators |->
                      Len(a.lookup_accumulators[l].thetas)] ]

\* C12: a fold of two accumulators of different shapes fails with
\* ShapeMismatch and produces no folded accumulator.
C12_ShapeMismatchRejected ==
    (pc = "done" /\ Shape(pre) # Shape(acc1)) =>
        (result = "Err(ShapeMismatch)" /\ acc = pre)

\* C13: a call of new_from_prover with a number of instance columns other than
\* pk.cs.num_instance_columns returns InvalidInstances, and a call that
\* returns InvalidInstances has performed no transcript operation: nothing
\* logged, the read position and the transcript state as before the call.
C13_InvalidInstances ==
    [][NewFromProver =>
          /\ (Len(instances') # pk.cs.num_instance_columns
                 => result' = "Err(InvalidInstances)")
          /\ (result' = "Err(InvalidInstances)"
                 => /\ Len(instances') # pk.cs.num_instance_columns
                    /\ ops' = <<>>
                    /\ tpos' = tpos
                    /\ v_hash' = v_hash)]_vars

C13_Witness ==
    /\ pc = "rejected"
    /\ result = "Err(InvalidInstances)"
    /\ Len(instances) = pk.cs.num_instance_columns + 1
    /\ tpos > 0

\* the place of a transcript operation in the order of C14
OrderKey(what, cs) ==
    IF what[1] = "instance" THEN << 0, what[2], what[3], 0 >>
    ELSE IF what[1] = "advice"
         THEN << 1, cs.advice_column_phase[what[2]], 0, what[2] >>
    ELSE IF what[1] = "challenge"
         THEN << 1, cs.challenge_phase[what[2]], 1, what[2] >>
    ELSE IF what[1] = "m" THEN << 2, what[2], 0, 0 >>
    ELSE IF what[1] = "r" THEN << 3, 0, 0, 0 >>
    ELSE IF what[1] = "theta" THEN << 3, 1, 0, 0 >>
    ELSE IF what[1] = "g" THEN << 4, what[2], 0, 0 >>
    ELSE IF what[1] = "h" THEN << 4, what[2], 1, 0 >>
    ELSE IF what[1] = "beta" THEN << 5, 0, 0, 0 >>
    ELSE IF what[1] = "beta_commitment" THEN << 6, 0, 0, 0 >>
    ELSE << 7, 0, 0, 0 >>

LexLess(a, b) ==
    \E k \in 1..4 : a[k] < b[k] /\ \A q \in 1..(k - 1) : a[q] = b[q]

KindOf(what) ==
    IF what[1] = "instance" THEN "common_scalar"
    ELSE IF what[1] \in {"advice", "m", "g", "h", "beta_commitment"}
         THEN "read_point"
    ELSE "squeeze_challenge_scalar"

ExpectedOperations(insts, cs) ==
    { << "instance", c, r >> : c \in 1..Len(insts), r \in 1..NumInstanceRows }
    \cup { << "advice", i >> : i \in 1..cs.num_advice_columns }
    \cup { << "challenge", j >> : j \in 1..cs.num_challenges }
    \cup { << w, l >> : w \in {"m", "g", "h"}, l \in 1..Len(cs.lookups) }
    \cup { << "r" >>, << "theta" >>, << "beta" >>, << "beta_commitment" >>,
           << "y" >> }

\* C14: a successful new_from_prover performs exactly the expected transcript
\* operations, each once and of the right kind, in this order: the instance
\* values column by column and row by row; phase by phase the advice
\* commitments of the phase and then its challenges; m of every lookup; r,
\* theta; g then h of every lookup; beta; beta_commitment; y.
C14_TranscriptOrder ==
    (result = "Ok" /\ pc \in {"ingest1", "ingested"}) =>
        /\ { ops[i].idx : i \in DOMAIN ops } = ExpectedOperations(instances, pk.cs)
        /\ \A i \in DOMAIN ops : ops[i].op = KindOf(ops[i].idx) /\ ops[i].ok
        /\ \A i \in 1..(Len(ops) - 1) :
              LexLess(OrderKey(ops[i].idx, pk.cs), OrderKey(ops[i + 1].idx, pk.cs))

C14_Witness ==
    /\ result = "Ok"
    /\ pc = "ingested"
    /\ \E i \in DOMAIN pk.cs.advice_column_phase :
          pk.cs.advice_column_phase[i] = MaxPhase
    /\ \E j \in DOMAIN pk.cs.challenge_phase : pk.cs.challenge_phase[j] = 0

\* the value a logged squeeze returned
Squeezed(what) == { ops[i].val : i \in { k \in DOMAIN ops : ops[k].idx = << what >> } }

\* the accumulator the last successful call returned
Returned == IF pc = "ingest1" THEN acc ELSE acc1

\* C15: an accumulator returned by new_from_prover is fresh: error is zero,
\* beta_error the identity, ys are the first num_folding_constraints powers
\* 1, y, y^2, .. of the squeezed y, every lookup accumulator holds the squeezed
\* r, and the thetas of lookup l are the first input_expressions().len()
\* powers of the squeezed theta.
C15_FreshAccumulator ==
    (result = "Ok" /\ pc \in {"ingest1", "ingested"}) =>
        /\ Returned.error = ZERO
        /\ Returned.beta_error = ZERO
        /\ Len(Returned.ys) = pk.num_folding_constraints
        /\ \A y \in Squeezed("y") : \A k \in DOMAIN Returned.ys :
              Returned.ys[k] = Power(y, k - 1) % P
        /\ Len(Returned.lookup_accumulators) = Len(pk.cs.lookups)
        /\ \A l \in DOMAIN Returned.lookup_accumulators :
              /\ Returned.lookup_accumulators[l].r \in Squeezed("r")
              /\ Len(Returned.lookup_accumulators[l].thetas) = pk.cs.lookups[l]
              /\ \A t \in Squeezed("theta") :
                 \A k \in DOMAIN Returned.lookup_accumulators[l].thetas :
                    Returned.lookup_accumulators[l].thetas[k] = Power(t, k - 1) % P

C15_Witness ==
    /\ result = "Ok"
    /\ pc = "ingested"
    /\ \E y \in Squeezed("y") : y > 1
    /\ \E t \in Squeezed("theta") : \E r \in Squeezed("r") : t # r
    /\ acc1.ys[NumFoldingConstraints] > 1
    /\ acc # acc1

\* the row of the last call of evaluate
LastRow == rows[Len(rows)]

\* the simple selector of the gate is present and false at the row
SelectorOff(row) ==
    /\ gate.simple_selector.some
    /\ ~ env.pk.selectors[gate.simple_selector.value][row + 1]

\* C16: for a gate with a simple selector that is false at the row, evaluate
\* returns None and leaves selectors, fixed, instance_acc, instance_diff,
\* advice_acc, advice_diff and gate_eval as they were before the call; only
\* the cached simple-selector value changes.
C16_SelectorFastPath ==
    (rows # <<>> /\ SelectorOff(LastRow)) =>
        /\ result = "None"
        /\ cache.selectors = cache_pre.selectors
        /\ cache.fixed = cache_pre.fixed
        /\ cache.instance_acc = cache_pre.instance_acc
        /\ cache.instance_diff = cache_pre.instance_diff
        /\ cache.advice_acc = cache_pre.advice_acc
        /\ cache.advice_diff = cache_pre.advice_diff
        /\ cache.gate_eval = cache_pre.gate_eval
        /\ cache = [cache_pre EXCEPT !.simple_selector = Some(FALSE)]

C16_Witness ==
    /\ Len(rows) = 2
    /\ SelectorOff(LastRow)
    /\ result = "None"
    /\ rows[1] # rows[2]
    /\ cache_pre.simple_selector = Some(TRUE)
    /\ \E i \in DOMAIN cache_pre.fixed : cache_pre.fixed[i] # ZERO
    /\ \E i \in DOMAIN cache_pre.advice_diff : cache_pre.advice_diff[i] # ZERO
    /\ \E j \in DOMAIN cache_pre.gate_eval :
          \E x \in DOMAIN cache_pre.gate_eval[j] : cache_pre.gate_eval[j][x] # ZERO

\* the last call of evaluate evaluated polys[j] at X / stored it
Evaluated(j, X) == \E i \in DOMAIN ops : ops[i].idx = << j, X >>
Stored(j, X) == \E i \in DOMAIN ops : ops[i].idx = << j, X >> /\ ops[i].ok

\* C17: on an active row, for every constraint j and every X in
\* 0..max_num_evals, polys[j] is evaluated and stored into gate_eval[j][X]
\* exactly when X <= degrees[j] + num_extra_evaluations, and is skipped for
\* larger X.
C17_DegreeBound ==
    (rows # <<>> /\ ~ SelectorOff(LastRow)) =>
        \A j \in DOMAIN gate.polys : \A X \in 0..(cache.max_num_evals - 1) :
            /\ Stored(j, X) <=> X <= gate.degrees[j] + env.num_extra_evaluations
            /\ X > gate.degrees[j] + env.num_extra_evaluations => ~ Evaluated(j, X)

\* the values polys[j] is evaluated on, read from pk and the accumulator src
\* at the row with the queried rotations
ValuesAt(src, row) ==
    [ selectors |-> [i \in DOMAIN gate.queried_selectors |->
                        IF env.pk.selectors[gate.queried_selectors[i]][row + 1]
                        THEN 1 % P ELSE 0],
      fixed |-> [i \in DOMAIN gate.queried_fixed |->
                    env.pk.fixed[gate.queried_fixed[i].column_index]
                        [((row + gate.queried_fixed[i].rotation + DomainSize)
                            % DomainSize) + 1]],
      instance |-> [i \in DOMAIN gate.queried_instance |->
                    src.instance_transcript.instance_polys
                        [gate.queried_instance[i].column_index]
                        [((row + gate.queried_instance[i].rotation + DomainSize)
                            % DomainSize) + 1]],
      advice |-> [i \in DOMAIN gate.queried_advice |->
                    src.advice_transcript.advice_polys
                        [gate.queried_advice[i].column_index]
                        [((row + gate.queried_advice[i].rotation + DomainSize)
                            % DomainSize) + 1]],
      challenges |-> [q \in DOMAIN gate.queried_challenges |->
                    src.challenges[gate.queried_challenges[q].index]
                                  [gate.queried_challenges[q].power]] ]

\* C18: the samples evaluate returns for an active row reproduce the
\* endpoints: gate_eval[j][0] is polys[j] on the values of acc at the row, and
\* gate_eval[j][1], where constraint j has a second sample, is polys[j] on the
\* values of new; selectors and fixed values are those of pk in both.
C18_EndpointReproduction ==
    (rows # <<>> /\ result = "Some") =>
        \A j \in DOMAIN gate.polys :
            /\ cache.gate_eval[j][1] =
                  EvaluateExpr(gate.polys[j], ValuesAt(env.acc, LastRow))
            /\ Len(cache.gate_eval[j]) >= 2 =>
                  cache.gate_eval[j][2] =
                      EvaluateExpr(gate.polys[j], ValuesAt(env.new, LastRow))

C18_Witness ==
    /\ Len(rows) = 2
    /\ result = "Some"
    /\ cache_pre.simple_selector = Some(TRUE)
    /\ \E j \in DOMAIN gate.polys :
          /\ Len(cache.gate_eval[j]) >= 2
          /\ cache.gate_eval[j][1] # cache.gate_eval[j][2]
          /\ cache.gate_eval[j][1] # cache_pre.gate_eval[j][1]
          /\ gate.degrees[j] >= 1

\* the index in 0..N of the row a rotation away from row
RotatedRow(row, rot) ==
    CHOOSE x \in 0..(env.isize - 1) :
        \E q \in -2..2 : row + rot = q * env.isize + x

\* C19: populate reads every queried fixed, instance and advice value at the
\* index (row + rot) mod N, the non-negative remainder in 0..N; at row 0 a
\* rotation of +1 reads row 1 and a rotation of -1 reads row N - 1.
C19_RotationModular ==
    (rows # <<>> /\ ~ SelectorOff(LastRow)) =>
        /\ \A i \in DOMAIN gate.queried_fixed :
            LET q == gate.queried_fixed[i]
                col == env.pk.fixed[q.column_index]
            IN  /\ populated.fixed[i] = col[RotatedRow(LastRow, q.rotation) + 1]
                /\ (LastRow = 0 /\ q.rotation = 1) => populated.fixed[i] = col[1 + 1]
                /\ (LastRow = 0 /\ q.rotation = -1) =>
                       populated.fixed[i] = col[(env.isize - 1) + 1]
        /\ \A i \in DOMAIN gate.queried_instance :
            LET q == gate.queried_instance[i]
                x == RotatedRow(LastRow, q.rotation)
                a == env.acc.instance_transcript.instance_polys[q.column_index]
                n == env.new.instance_transcript.instance_polys[q.column_index]
            IN  /\ populated.instance_acc[i] = a[x + 1]
                /\ populated.instance_diff[i] = (n[x + 1] + P - a[x + 1]) % P
                /\ (LastRow = 0 /\ q.rotation = -1) =>
                       populated.instance_acc[i] = a[(env.isize - 1) + 1]
        /\ \A i \in DOMAIN gate.queried_advice :
            LET q == gate.queried_advice[i]
                x == RotatedRow(LastRow, q.rotation)
                a == env.acc.advice_transcript.advice_polys[q.column_index]
                n == env.new.advice_transcript.advice_polys[q.column_index]
            IN  /\ populated.advice_acc[i] = a[x + 1]
                /\ populated.advice_diff[i] = (n[x + 1] + P - a[x + 1]) % P
                /\ (LastRow = 0 /\ q.rotation = 1) =>
                       populated.advice_acc[i] = a[1 + 1]

C19_Witness ==
    /\ rows # <<>>
    /\ LastRow = 0
    /\ ~ SelectorOff(LastRow)
    /\ \E i \in DOMAIN gate.queried_fixed :
          /\ gate.queried_fixed[i].rotation = -1
          /\ populated.fixed[i] = env.pk.fixed[gate.queried_fixed[i].column_index][env.isize]
          /\ populated.fixed[i] # env.pk.fixed[gate.queried_fixed[i].column_index][2]
    /\ \E i \in DOMAIN gate.queried_fixed : gate.queried_fixed[i].rotation = 1

C25_WritesInBounds ==
    (rows # <<>>) =>
        /\ result # "panic: index out of bounds"
        /\ \A i \in DOMAIN ops :
              /\ ops[i].idx[2] < cache.num_evals[ops[i].idx[1]]
              /\ ops[i].idx[2] < Len(cache.gate_eval[ops[i].idx[1]])
              /\ ops[i].ok

\* the cache a call of GateEvaluationCache::new returns for the gate
FreshCache ==
    GateEvaluationCache_new(gate, env.acc.challenges, env.new.challenges,
                            env.num_extra_evaluations)

\* C28: the samples evaluate returns for an active row depend on the row
\* only, not on the rows, active or skipped, the same cache evaluated before:
\* they are the samples a cache that evaluated nothing before returns for the
\* row, and every buffer the evaluation reads holds the values of the row.
C28_HistoryIndependent ==
    (rows # <<>> /\ result = "Some") =>
        /\ cache.gate_eval = evaluate(FreshCache, LastRow, env).cache.gate_eval
        /\ populated.selectors = populate(FreshCache, LastRow, env).selectors
        /\ populated.fixed = populate(FreshCache, LastRow, env).fixed
        /\ populated.instance_acc = populate(FreshCache, LastRow, env).instance_acc
        /\ populated.instance_diff = populate(FreshCache, LastRow, env).instance_diff
        /\ populated.advice_acc = populate(FreshCache, LastRow, env).advice_acc
        /\ populated.advice_diff = populate(FreshCache, LastRow, env).advice_diff

C28_Witness ==
    /\ Len(rows) >= 2
    /\ result = "Some"
    /\ rows[Len(rows) - 1] # LastRow
    /\ cache_pre.advice_acc # populated.advice_acc
    /\ cache_pre.advice_acc # FreshCache.advice_acc
    /\ cache_pre.gate_eval # cache.gate_eval
    /\ cache_pre.gate_eval # FreshCache.gate_eval

\* C26: through any sequence of folds with arguments of the same shape the
\* target keeps its shape (instance columns and rows, advice commitments,
\* challenges, lookup accumulators, thetas per lookup, ys), and no step of
\* fold modifies the argument acc1.
C26_RefoldKeepsShape ==
    [][ /\ acc1' = acc1
        /\ (Shape(acc) = Shape(acc1) => Shape(acc') = Shape(acc1')) ]_vars

C26_Witness ==
    /\ pc = "done"
    /\ v_folds = MaxFolds
    /\ Shape(acc) = Shape(acc1)
    /\ acc # pre
    /\ acc # p_acc0
    /\ pre # p_acc0

\* the cross-term of the beta_error fold for a target holding beta0 and C0
BetaCrossTerm(beta0, C0, beta1, C1, a) ==
    ( a * (P + 1 - a) * ( C0 * (beta1 + P - beta0) + C1 * (beta0 + P - beta1) ) ) % P

\* C27: the beta_error assigned by fold is computed from the beta and
\* beta_commitment the target held when fold was called: what it adds to the
\* two error terms is the cross-term over the pre-fold beta0 and C0.
C27_BetaErrorFromPreFold ==
    pc = "done" =>
        acc.beta_error =
            ( (P + 1 - alpha) * pre.beta_error
              + acc1.beta_error
              + BetaCrossTerm(pre.beta, pre.beta_commitment,
                              acc1.beta, acc1.beta_commitment, alpha) ) % P

C27_Witness ==
    /\ pc = "done"
    /\ acc.beta # pre.beta
    /\ acc.beta_commitment # pre.beta_commitment
    /\ BetaCrossTerm(pre.beta, pre.beta_commitment,
                     acc1.beta, acc1.beta_commitment, alpha)
         # BetaCrossTerm(acc.beta, pre.beta_commitment,
                         acc1.beta, acc1.beta_commitment, alpha)
    /\ BetaCrossTerm(pre.beta, pre.beta_commitment,
                     acc1.beta, acc1.beta_commitment, alpha)
         # BetaCrossTerm(pre.beta, acc.beta_commitment,
                         acc1.beta, acc1.beta_commitment, alpha)

\* some column of the instances has more values than the usable rows
TooLarge ==
    \E c \in DOMAIN instances :
        Len(instances[c]) > pk.params_n - (pk.cs.blinding_factors + 1)

Compiled == DOMAIN gate # {}
HaveQueries == DOMAIN queries # {}
Queried == DOMAIN queried_polys # {}

StrictlyIncreasing(s, order) ==
    \A i \in 1..(Len(s) - 1) : Less(order, s[i], s[i + 1])

Entries(s) == { s[i] : i \in DOMAIN s }

\* the indices the leaves of one kind hold in a compiled expression
RECURSIVE LeafIndices(_, _)
LeafIndices(e, kind) ==
    CASE e.tag = "Constant" -> {}
      [] e.tag \in {"Selector", "Fixed", "Advice", "Instance", "Challenge"} ->
            IF e.tag = kind THEN {e.i} ELSE {}
      [] e.tag \in {"Negated", "Scaled"} -> LeafIndices(e.a, kind)
      [] OTHER -> LeafIndices(e.a, kind) \cup LeafIndices(e.b, kind)

IndicesUsed(polys, kind) ==
    UNION { LeafIndices(polys[j], kind) : j \in DOMAIN polys }

\* the polynomials Gate::from interns the leaves of
Flattened ==
    LET extracted == extract_simple_selector(plonk_gate.polys)
    IN  [j \in DOMAIN extracted.polys |->
            merge_challenge_products(extracted.polys[j])]

\* the five sequences of a gate hold, strictly increasing, the leaves its
\* compiled polynomials name
GateTablesExact ==
    /\ StrictlyIncreasing(gate.queried_selectors, "Selector")
    /\ StrictlyIncreasing(gate.queried_fixed, "Query")
    /\ StrictlyIncreasing(gate.queried_instance, "Query")
    /\ StrictlyIncreasing(gate.queried_advice, "Query")
    /\ StrictlyIncreasing(gate.queried_challenges, "Challenge")
    /\ IndicesUsed(gate.polys, "Selector") = DOMAIN gate.queried_selectors
    /\ IndicesUsed(gate.polys, "Fixed") = DOMAIN gate.queried_fixed
    /\ IndicesUsed(gate.polys, "Instance") = DOMAIN gate.queried_instance
    /\ IndicesUsed(gate.polys, "Advice") = DOMAIN gate.queried_advice
    /\ IndicesUsed(gate.polys, "Challenge") = DOMAIN gate.queried_challenges
    /\ Entries(gate.queried_selectors) = Collected(Flattened, "Selector")
    /\ Entries(gate.queried_fixed) = Collected(Flattened, "Fixed")
    /\ Entries(gate.queried_instance) = Collected(Flattened, "Instance")
    /\ Entries(gate.queried_advice) = Collected(Flattened, "Advice")
    /\ Entries(gate.queried_challenges) = Collected(Flattened, "Challenge")

\* the sequences of Queries but the challenges
QueriesTablesExact ==
    /\ StrictlyIncreasing(queries.selectors, "Selector")
    /\ StrictlyIncreasing(queries.fixed, "Tuple")
    /\ StrictlyIncreasing(queries.instance, "Tuple")
    /\ StrictlyIncreasing(queries.advice, "Tuple")
    /\ StrictlyIncreasing(queries.challenges, "Tuple")
    /\ Entries(queries.selectors) = Collected(plonk_gate.polys, "Selector")
    /\ Entries(queries.fixed) =
          { << q.column_index, q.rotation >> :
               q \in Collected(plonk_gate.polys, "Fixed") }
    /\ Entries(queries.instance) =
          { << q.column_index, q.rotation >> :
               q \in Collected(plonk_gate.polys, "Instance") }
    /\ Entries(queries.advice) =
          { << q.column_index, q.rotation >> :
               q \in Collected(plonk_gate.polys, "Advice") }

\* C21 as stated: after Gate::from and after Queries::from_polys each of the
\* five sequences is strictly increasing and holds exactly the leaves of the
\* expressions, the challenges as (index, power)
C21_AsStated ==
    /\ Compiled => GateTablesExact
    /\ HaveQueries =>
          /\ QueriesTablesExact
          /\ Entries(queries.challenges) =
                { << q.index, q.power >> :
                     q \in Collected(plonk_gate.polys, "Challenge") }

\* C21: after Gate::from and after Queries::from_polys each of the five
\* sequences is strictly increasing in the order of its entries and holds
\* exactly the distinct leaves of the expressions, where Queries records the
\* challenge leaf (index, power) as (index, power - 1)
C21_TablesSortedAndExact ==
    /\ Compiled => GateTablesExact
    /\ HaveQueries =>
          /\ QueriesTablesExact
          /\ Entries(queries.challenges) =
                { << q.index, q.power - 1 >> :
                     q \in Collected(plonk_gate.polys, "Challenge") }

\* a gate and queries with several entries in one sequence, a leaf that
\* occurs in two polynomials, and a challenge of power above 1
C21_Witness ==
    /\ Compiled
    /\ HaveQueries
    /\ Len(gate.queried_advice) >= 2
    /\ \E i \in DOMAIN gate.queried_challenges :
          gate.queried_challenges[i].power >= 2
    /\ Len(queries.advice) >= 2
    /\ Len(queries.challenges) >= 2
    /\ Len(plonk_gate.polys) = 2
    /\ traverse(plonk_gate.polys[1], "Advice")
          \cap traverse(plonk_gate.polys[2], "Advice") # {}
    /\ plonk_gate.polys[1] # plonk_gate.polys[2]
\* the sequences of a gate as tuples (column, rotation) and (index, power)
GateTables ==
    [ selectors |-> gate.queried_selectors,
      fixed |-> [i \in DOMAIN gate.queried_fixed |->
                    << gate.queried_fixed[i].column_index,
                       gate.queried_fixed[i].rotation >>],
      instance |-> [i \in DOMAIN gate.queried_instance |->
                       << gate.queried_instance[i].column_index,
                          gate.queried_instance[i].rotation >>],
      advice |-> [i \in DOMAIN gate.queried_advice |->
                     << gate.queried_advice[i].column_index,
                        gate.queried_advice[i].rotation >>],
      challenges |-> [i \in DOMAIN gate.queried_challenges |->
                         << gate.queried_challenges[i].index,
                            gate.queried_challenges[i].power >>] ]

\* the compiled expression has the shape of the source and each of its leaves
\* holds an index of its sequence, the entry there being the source leaf with
\* `off` taken from the power of a challenge
RECURSIVE Names(_, _, _, _)
Names(expr, source, tables, off) ==
    /\ expr.tag = source.tag
    /\ CASE expr.tag = "Constant" -> expr.v = source.v
         [] expr.tag = "Selector" ->
               /\ expr.i \in DOMAIN tables.selectors
               /\ tables.selectors[expr.i] = source.i
         [] expr.tag = "Fixed" ->
               /\ expr.i \in DOMAIN tables.fixed
               /\ tables.fixed[expr.i] =
                     << source.q.column_index, source.q.rotation >>
         [] expr.tag = "Instance" ->
               /\ expr.i \in DOMAIN tables.instance
               /\ tables.instance[expr.i] =
                     << source.q.column_index, source.q.rotation >>
         [] expr.tag = "Advice" ->
               /\ expr.i \in DOMAIN tables.advice
               /\ tables.advice[expr.i] =
                     << source.q.column_index, source.q.rotation >>
         [] expr.tag = "Challenge" ->
               /\ expr.i \in DOMAIN tables.challenges
               /\ tables.challenges[expr.i] =
                     << source.q.index, source.q.power - off >>
         [] expr.tag = "Negated" -> Names(expr.a, source.a, tables, off)
         [] expr.tag = "Scaled" ->
               /\ expr.v = source.v
               /\ Names(expr.a, source.a, tables, off)
         [] OTHER -> /\ Names(expr.a, source.a, tables, off)
                     /\ Names(expr.b, source.b, tables, off)

\* every leaf of the polynomial is a leaf of the polynomials from_polys saw
Interned(poly) ==
    \A kind \in {"Selector", "Fixed", "Instance", "Advice", "Challenge"} :
        traverse(poly, kind) \subseteq Collected(plonk_gate.polys, kind)

\* C22 as stated: every leaf index of a compiled expression is in range and
\* the entry it names is the source leaf, a challenge as (index, power), for
\* Gate::from and for queried_expression on interned leaves
C22_AsStated ==
    /\ Compiled =>
          \A j \in DOMAIN gate.polys :
              /\ ~ UnwrapFailed(gate.polys[j])
              /\ Names(gate.polys[j], Flattened[j], GateTables, 0)
    /\ (Queried /\ Interned(queried_polys.poly)) =>
          /\ ~ UnwrapFailed(queried_polys.expr)
          /\ Names(queried_polys.expr, queried_polys.poly, queries, 0)

\* C22: every leaf index of a compiled expression is in range of its sequence
\* and the entry it names is the source leaf (column and rotation; challenge
\* index and power for a Gate, challenge index and power - 1 for Queries),
\* and the rewriting of an expression whose leaves were interned never fails
C22_IndicesNameLeaves ==
    /\ Compiled =>
          \A j \in DOMAIN gate.polys :
              /\ ~ UnwrapFailed(gate.polys[j])
              /\ Names(gate.polys[j], Flattened[j], GateTables, 0)
    /\ (Queried /\ Interned(queried_polys.poly)) =>
          /\ pc # "panicked"
          /\ ~ UnwrapFailed(queried_polys.expr)
          /\ Names(queried_polys.expr, queried_polys.poly, queries, 1)

\* a gate compiled and one of its polynomials rewritten by the queries, with
\* challenges among the leaves and sequences of several entries
C22_Witness ==
    /\ Compiled
    /\ Queried
    /\ Interned(queried_polys.poly)
    /\ traverse(queried_polys.poly, "Challenge") # {}
    /\ Len(queries.challenges) >= 2
    /\ Len(queries.advice) >= 2
    /\ Len(gate.queried_advice) >= 2
    /\ IndicesUsed(gate.polys, "Advice") = {1, 2}

\* C23: if the gate has a simple selector, it is not among queried_selectors
C23_SimpleSelectorNotQueried ==
    (Compiled /\ gate.simple_selector.some) =>
        \A i \in DOMAIN gate.queried_selectors :
            gate.queried_selectors[i] # gate.simple_selector.value
\* ------------------------------------------------------------------- rows
\* C30: every read of fill_row_with_rotations is at an index inside 0..N of
\* its column, for every row and every queried rotation
C30_ReadsInsideColumn ==
    \A k \in DOMAIN ops :
        ops[k].op = "read" =>
            /\ ops[k].ok
            /\ ops[k].idx[2] \in 0..(DomainSize - 1)

\* the cache of the gate compiled from the same polynomials, populated for
\* the row, as iteration X of evaluate has it: the diffs added X times
RECURSIVE AddDiffsTimes(_, _)
AddDiffsTimes(c, X) == IF X = 0 THEN c ELSE AddDiffs(AddDiffsTimes(c, X - 1))

CacheInIteration(row_idx, X) ==
    AddDiffsTimes(
        FillBuffers(GateEvaluationCache_new(Gate_from(plonk_gate),
                                            env.acc.challenges,
                                            env.new.challenges,
                                            env.num_extra_evaluations),
                    row_idx, env),
        X)

PopulatedEvaluated == pc = "populate" /\ result = "populate_all_evaluated"

\* C29: after populate_all_evaluated of a row whose rotations stay in the
\* columns, with num_evals >= 2, advice_evals[X][i] and instance_evals[X][i]
\* are v0 + X * (v1 - v0) for the values v0 of acc and v1 of new at the
\* queried place, and are what the cache of the same queries holds in
\* advice_acc[i] and instance_acc[i] in iteration X
C29_RowAgreesWithCache ==
    PopulatedEvaluated =>
        /\ row_evals.num_evals >= 2
        /\ \A X \in 0..(row_evals.num_evals - 1) :
             /\ \A i \in DOMAIN queries.advice :
                   /\ row_evals.advice_evals[X + 1][i] =
                         Lerp(env.acc.advice_transcript.advice_polys
                                  [queries.advice[i][1]]
                                  [LastRow + queries.advice[i][2] + 1],
                              env.new.advice_transcript.advice_polys
                                  [queries.advice[i][1]]
                                  [LastRow + queries.advice[i][2] + 1],
                              X)
                   /\ Gate_from(plonk_gate).queried_advice[i] =
                         Query(queries.advice[i][1], queries.advice[i][2])
                   /\ row_evals.advice_evals[X + 1][i] =
                         CacheInIteration(LastRow, X).advice_acc[i]
             /\ \A i \in DOMAIN queries.instance :
                   /\ row_evals.instance_evals[X + 1][i] =
                         Lerp(env.acc.instance_transcript.instance_polys
                                  [queries.instance[i][1]]
                                  [LastRow + queries.instance[i][2] + 1],
                              env.new.instance_transcript.instance_polys
                                  [queries.instance[i][1]]
                                  [LastRow + queries.instance[i][2] + 1],
                              X)
                   /\ Gate_from(plonk_gate).queried_instance[i] =
                         Query(queries.instance[i][1], queries.instance[i][2])
                   /\ row_evals.instance_evals[X + 1][i] =
                         CacheInIteration(LastRow, X).instance_acc[i]

\* a row populated for three samples, with queried advice and instance
\* values that differ between acc and new, some at a rotated row
C29_Witness ==
    /\ PopulatedEvaluated
    /\ row_evals.num_evals >= 3
    /\ \E i \in DOMAIN queries.advice :
          /\ queries.advice[i][2] # 0
          /\ row_evals.advice_diff[i] # ZERO
          /\ row_evals.advice_evals[1][i] # ZERO
    /\ \E i \in DOMAIN queries.instance :
          /\ row_evals.instance_diff[i] # ZERO
          /\ row_evals.instance_evals[3][i] # row_evals.instance_evals[2][i]

====
